---------------------------- MODULE Spec2Model ----------------------------
(***************************************************************************)
(* A model of JsonResponseHandler (src/src/jsonUtils.ts): the locator of   *)
(* the first oversized array, the non-mutating limiter, the raw-data       *)
(* archiver and the response renderer.                                     *)
(*                                                                         *)
(* JavaScript values live in a heap of cells (objects and arrays) that are *)
(* reached through references, so that aliasing and mutation are visible.  *)
(* Strings are sequences of one-character strings, so that split('.') and  *)
(* the filename sanitiser work on characters.                              *)
(***************************************************************************)
EXTENDS Integers, Sequences, FiniteSets, TLC

(***************************************************************************)
(* Bounds of the model.                                                    *)
(***************************************************************************)
\* longest array of an input value
MaxLen == 3
\* largest configured threshold (maxItemsForContext ranges over 1..MaxN)
MaxN == 2
\* operations applied to one input value in one behaviour
MaxCalls == 2
\* invocations of saveRawData in one behaviour
MaxSaves == 2
\* the last instant of the clock, in milliseconds
MaxClock == 2

(***************************************************************************)
(* Strings.                                                                *)
(***************************************************************************)
RECURSIVE Join(_, _)
\* Array.prototype.join: the strings of parts with sep between them
Join(parts, sep) ==
    IF Len(parts) = 0 THEN <<>>
    ELSE IF Len(parts) = 1 THEN parts[1]
    ELSE parts[1] \o sep \o Join(Tail(parts), sep)

RECURSIVE SplitFrom(_, _, _, _)
\* the segments of s between the characters sep, from position i on, cur
\* being the segment read so far
SplitFrom(s, sep, i, cur) ==
    IF i > Len(s) THEN <<cur>>
    ELSE IF s[i] = sep THEN <<cur>> \o SplitFrom(s, sep, i + 1, <<>>)
    ELSE SplitFrom(s, sep, i + 1, Append(cur, s[i]))

\* str.split(sep) for a separator of one character
Split(s, sep) == SplitFrom(s, sep, 1, <<>>)

\* fieldPath.split('.')
SplitDot(s) == Split(s, ".")

\* the marker '(root)' of a match on the root value
RootMarker == <<"(", "r", "o", "o", "t", ")">>

(***************************************************************************)
(* JavaScript values.  A value is a primitive or a reference to a heap     *)
(* cell; every value is a record of the same shape.                        *)
(***************************************************************************)
VNull == [t |-> "null", n |-> 0, s |-> <<>>]
VUndef == [t |-> "undef", n |-> 0, s |-> <<>>]
VNum(k) == [t |-> "num", n |-> k, s |-> <<>>]
VStr(str) == [t |-> "str", n |-> 0, s |-> str]
VBool(b) == [t |-> "bool", n |-> IF b THEN 1 ELSE 0, s |-> <<>>]
VRef(a) == [t |-> "ref", n |-> a, s |-> <<>>]

\* a heap cell: an object (keys, vals in Object.keys order) or an array
\* (elems; keys and vals hold the non-index properties set on the array)
ObjCell(ks, vs) == [kind |-> "obj", keys |-> ks, vals |-> vs, elems |-> <<>>]
ArrCell(es) == [kind |-> "arr", keys |-> <<>>, vals |-> <<>>, elems |-> es]

IsRef(v) == v.t = "ref"
\* Array.isArray(v)
IsArray(h, v) == IsRef(v) /\ h[v.n].kind = "arr"
\* v && typeof v === 'object' && !Array.isArray(v)
IsPlainObject(h, v) == IsRef(v) /\ h[v.n].kind = "obj"
\* !v : null, undefined, 0, '' and false are falsy
IsFalsy(v) ==
    \/ v.t \in {"null", "undef"}
    \/ v.t = "num" /\ v.n = 0
    \/ v.t = "str" /\ v.s = <<>>
    \/ v.t = "bool" /\ v.n = 0

\* the position of key k in the key list ks, 0 when absent
IndexOf(ks, k) ==
    IF \E i \in 1..Len(ks) : ks[i] = k
    THEN CHOOSE i \in 1..Len(ks) : ks[i] = k
    ELSE 0

(***************************************************************************)
(* JSON values as trees: what a value is, apart from where it is stored.   *)
(***************************************************************************)
TNull == [t |-> "null", n |-> 0, s |-> <<>>, keys |-> <<>>, vals |-> <<>>, items |-> <<>>]
TNum(k) == [t |-> "num", n |-> k, s |-> <<>>, keys |-> <<>>, vals |-> <<>>, items |-> <<>>]
TStr(str) == [t |-> "str", n |-> 0, s |-> str, keys |-> <<>>, vals |-> <<>>, items |-> <<>>]
TBool(b) == [t |-> "bool", n |-> IF b THEN 1 ELSE 0, s |-> <<>>, keys |-> <<>>, vals |-> <<>>, items |-> <<>>]
TArr(es) == [t |-> "arr", n |-> 0, s |-> <<>>, keys |-> <<>>, vals |-> <<>>, items |-> es]
TObj(ks, vs) == [t |-> "obj", n |-> 0, s |-> <<>>, keys |-> ks, vals |-> vs, items |-> <<>>]

RECURSIVE Tree(_, _)
\* the tree of value v in heap h (deep value: what toEqual compares, with the
\* key order kept)
Tree(h, v) ==
    IF ~IsRef(v)
    THEN [t |-> v.t, n |-> v.n, s |-> v.s, keys |-> <<>>, vals |-> <<>>, items |-> <<>>]
    ELSE LET c == h[v.n] IN
         [t |-> c.kind, n |-> 0, s |-> <<>>,
          keys |-> c.keys,
          vals |-> [i \in 1..Len(c.vals) |-> Tree(h, c.vals[i])],
          items |-> [i \in 1..Len(c.elems) |-> Tree(h, c.elems[i])]]

RECURSIVE Reach(_, _)
\* the cells reachable from value v: v's own cell and those of its parts
Reach(h, v) ==
    IF ~IsRef(v) THEN {}
    ELSE LET c == h[v.n] IN
         {v.n} \cup UNION {Reach(h, c.vals[i]) : i \in 1..Len(c.vals)}
               \cup UNION {Reach(h, c.elems[i]) : i \in 1..Len(c.elems)}


(***************************************************************************)
(* Building a JSON value in the heap (the caller's value, as received).    *)
(***************************************************************************)
RECURSIVE Build(_, _)
RECURSIVE BuildSeq(_, _)
\* the trees ts stored one after the other: the new heap and their values
BuildSeq(h, ts) ==
    IF Len(ts) = 0 THEN [heap |-> h, vals |-> <<>>]
    ELSE LET first == Build(h, ts[1])
             others == BuildSeq(first.heap, Tail(ts))
         IN [heap |-> others.heap, vals |-> <<first.val>> \o others.vals]

\* tree tr stored in heap h: the new heap and the value that refers to it
Build(h, tr) ==
    IF tr.t \notin {"arr", "obj"}
    THEN [heap |-> h, val |-> [t |-> tr.t, n |-> tr.n, s |-> tr.s]]
    ELSE LET kids == BuildSeq(h, IF tr.t = "arr" THEN tr.items ELSE tr.vals)
             cell == IF tr.t = "arr" THEN ArrCell(kids.vals)
                     ELSE ObjCell(tr.keys, kids.vals)
         IN [heap |-> Append(kids.heap, cell), val |-> VRef(Len(kids.heap) + 1)]

(***************************************************************************)
(* Property access of JavaScript, in strict mode (class bodies are strict). *)
(***************************************************************************)
\* target[key] for a target that is neither null nor undefined: the own
\* property, undefined when there is none (primitives have none of the keys
\* of this model)
GetProp(h, target, key) ==
    IF ~IsRef(target) THEN VUndef
    ELSE LET c == h[target.n]
             i == IndexOf(c.keys, key)
         IN IF i = 0 THEN VUndef ELSE c.vals[i]

\* the cell after cell[key] = x: an existing property keeps its place, a
\* new one comes last
SetProp(cell, key, x) ==
    LET i == IndexOf(cell.keys, key) IN
    IF i = 0
    THEN [cell EXCEPT !.keys = Append(@, key), !.vals = Append(@, x)]
    ELSE [cell EXCEPT !.vals[i] = x]

(***************************************************************************)
(* findLargeArrayField                                                     *)
(***************************************************************************)
\* a mutation: the threshold itself counts as exceeding
IsLargeArray_AtLeast(h, value, N) ==
    IsArray(h, value) /\ Len(h[value.n].elems) >= N

\* Array.isArray(value) && value.length > this.config.maxItemsForContext
IsLargeArray(h, value, N) ==
    IsArray(h, value) /\ Len(h[value.n].elems) > N

NotFound ==
    [found |-> FALSE, fieldPath |-> <<>>, array |-> VNull,
     parentObj |-> VNull, fieldKey |-> <<>>]

Found(path, arr, parent, key) ==
    [found |-> TRUE, fieldPath |-> path, array |-> arr,
     parentObj |-> parent, fieldKey |-> key]

RECURSIVE findLargeArrayField(_, _, _, _)
RECURSIVE ScanKeys(_, _, _, _, _)
\* the loop over Object.keys(data) from the i-th key on
ScanKeys(h, data, pathStr, N, i) ==
    LET c == h[data.n] IN
    IF i > Len(c.keys) THEN NotFound
    ELSE LET key == c.keys[i]
             value == c.vals[i]
             currentPath == IF pathStr # <<>> THEN pathStr \o <<".">> \o key ELSE key
         IN IF IsLargeArray(h, value, N)
            THEN Found(currentPath, value, data, key)
            ELSE IF IsPlainObject(h, value)
            THEN LET found == findLargeArrayField(h, value, currentPath, N)
                 IN IF found.found THEN found
                    ELSE ScanKeys(h, data, pathStr, N, i + 1)
            ELSE ScanKeys(h, data, pathStr, N, i + 1)

\* a mutation: a short array is searched through its first element
findLargeArrayField_IntoArrays(h, data, pathStr, N) ==
    IF IsFalsy(data) \/ ~IsRef(data) THEN NotFound
    ELSE IF IsArray(h, data)
    THEN IF IsLargeArray(h, data, N)
         THEN Found(IF pathStr # <<>> THEN pathStr ELSE RootMarker, data, VNull, <<>>)
         ELSE IF Len(h[data.n].elems) > 0
         THEN findLargeArrayField(h, h[data.n].elems[1], pathStr, N)
         ELSE NotFound
    ELSE ScanKeys(h, data, pathStr, N, 1)

\* findLargeArrayField(data, pathStr) of a handler with maxItemsForContext = N
findLargeArrayField(h, data, pathStr, N) ==
    IF IsFalsy(data) \/ ~IsRef(data) THEN NotFound
    ELSE IF IsArray(h, data)
    THEN IF IsLargeArray(h, data, N)
         THEN Found(IF pathStr # <<>> THEN pathStr ELSE RootMarker, data, VNull, <<>>)
         ELSE NotFound
    ELSE ScanKeys(h, data, pathStr, N, 1)

(***************************************************************************)
(* JSON.stringify and JSON.parse.  The text is a sequence of tokens (the   *)
(* white space of the indented form is left out).                          *)
(***************************************************************************)
Tok(k) == [k |-> k, n |-> 0, s |-> <<>>]
TokNum(n) == [k |-> "num", n |-> n, s |-> <<>>]
TokStr(s) == [k |-> "str", n |-> 0, s |-> s]
TokBool(n) == [k |-> "bool", n |-> n, s |-> <<>>]

RECURSIVE Stringify(_, _)
\* JSON.stringify(v, null, 2): an undefined property is left out, an
\* undefined array element is written null, the non-index properties of an
\* array are not written
Stringify(h, v) ==
    CASE v.t \in {"null", "undef"} -> <<Tok("null")>>
      [] v.t = "num" -> <<TokNum(v.n)>>
      [] v.t = "str" -> <<TokStr(v.s)>>
      [] v.t = "bool" -> <<TokBool(v.n)>>
      [] OTHER ->
         LET c == h[v.n] IN
         IF c.kind = "arr"
         THEN <<Tok("[")>>
              \o Join([i \in 1..Len(c.elems) |-> Stringify(h, c.elems[i])], <<Tok(",")>>)
              \o <<Tok("]")>>
         ELSE LET kept == SelectSeq([i \in 1..Len(c.keys) |-> i],
                                    LAMBDA i : c.vals[i].t # "undef")
              IN <<Tok("{")>>
                 \o Join([j \in 1..Len(kept) |->
                            <<TokStr(c.keys[kept[j]]), Tok(":")>>
                            \o Stringify(h, c.vals[kept[j]])],
                         <<Tok(",")>>)
                 \o <<Tok("}")>>

RECURSIVE Parse(_, _)
RECURSIVE ParseElems(_, _, _)
RECURSIVE ParseMembers(_, _, _)
\* the elements of an array up to its ']', acc being those read so far
ParseElems(h, toks, acc) ==
    LET r == Parse(h, toks)
        es == Append(acc, r.val)
    IN IF r.rest[1].k = ","
       THEN ParseElems(r.heap, Tail(r.rest), es)
       ELSE [heap |-> Append(r.heap, ArrCell(es)),
             val |-> VRef(Len(r.heap) + 1), rest |-> Tail(r.rest)]

\* the members of an object up to its '}', cell holding those read so far
ParseMembers(h, toks, cell) ==
    LET key == toks[1].s
        r == Parse(h, Tail(Tail(toks)))
        c == SetProp(cell, key, r.val)
    IN IF r.rest[1].k = ","
       THEN ParseMembers(r.heap, Tail(r.rest), c)
       ELSE [heap |-> Append(r.heap, c),
             val |-> VRef(Len(r.heap) + 1), rest |-> Tail(r.rest)]

\* JSON.parse of the value at the head of toks, stored in fresh cells of h
Parse(h, toks) ==
    LET tk == toks[1] IN
    CASE tk.k = "null" -> [heap |-> h, val |-> VNull, rest |-> Tail(toks)]
      [] tk.k = "num" -> [heap |-> h, val |-> VNum(tk.n), rest |-> Tail(toks)]
      [] tk.k = "str" -> [heap |-> h, val |-> VStr(tk.s), rest |-> Tail(toks)]
      [] tk.k = "bool" -> [heap |-> h, val |-> VBool(tk.n = 1), rest |-> Tail(toks)]
      [] tk.k = "[" ->
         IF toks[2].k = "]"
         THEN [heap |-> Append(h, ArrCell(<<>>)), val |-> VRef(Len(h) + 1),
               rest |-> Tail(Tail(toks))]
         ELSE ParseElems(h, Tail(toks), <<>>)
      [] OTHER ->
         IF toks[2].k = "}"
         THEN [heap |-> Append(h, ObjCell(<<>>, <<>>)), val |-> VRef(Len(h) + 1),
               rest |-> Tail(Tail(toks))]
         ELSE ParseMembers(h, Tail(toks), ObjCell(<<>>, <<>>))

(***************************************************************************)
(* limitItems                                                              *)
(***************************************************************************)
Min(a, b) == IF a < b THEN a ELSE b

\* a mutation: the last N elements instead of the first
Slice_Last(h, arr, N) ==
    LET es == h[arr.n].elems
    IN [heap |-> Append(h, ArrCell(SubSeq(es, Len(es) - Min(N, Len(es)) + 1, Len(es)))),
        val |-> VRef(Len(h) + 1)]

\* arr.slice(0, N): a new array cell holding the first N element values of
\* arr (a shallow copy: the elements are not copied)
Slice(h, arr, N) ==
    LET es == h[arr.n].elems
    IN [heap |-> Append(h, ArrCell(SubSeq(es, 1, Min(N, Len(es))))),
        val |-> VRef(Len(h) + 1)]

\* a mutation: no copy is made, the value itself is used
JsonClone_Alias(h, v) == [heap |-> h, val |-> v, rest |-> <<>>]

\* JSON.parse(JSON.stringify(v)): a deep copy of v in fresh cells
JsonClone(h, v) == Parse(h, Stringify(h, v))

RECURSIVE Navigate(_, _, _, _)
\* the loop target = target[pathParts[i]] for i up to the last part but one;
\* reading a property of null or undefined throws a TypeError
Navigate(h, target, pathParts, i) ==
    IF i > Len(pathParts) - 1 THEN [threw |-> FALSE, target |-> target]
    ELSE IF target.t \in {"null", "undef"} THEN [threw |-> TRUE, target |-> target]
    ELSE Navigate(h, GetProp(h, target, pathParts[i]), pathParts, i + 1)

\* a mutation: the count of the array found is not reported
LimitResult_NoCount(h, limited, originalCount, wasLimited, hasField, limitedField) ==
    [heap |-> h, threw |-> FALSE, limited |-> limited,
     originalCount |-> 0, wasLimited |-> wasLimited,
     hasField |-> hasField, limitedField |-> limitedField]

\* what a call of limitItems leaves: the heap and either the result or threw
LimitResult(h, limited, originalCount, wasLimited, hasField, limitedField) ==
    [heap |-> h, threw |-> FALSE, limited |-> limited,
     originalCount |-> originalCount, wasLimited |-> wasLimited,
     hasField |-> hasField, limitedField |-> limitedField]

LimitThrew(h) ==
    [heap |-> h, threw |-> TRUE, limited |-> VUndef, originalCount |-> 0,
     wasLimited |-> FALSE, hasField |-> FALSE, limitedField |-> <<>>]

\* limitItems(data) of a handler with maxItemsForContext = N
limitItems(h, data, N) ==
    IF IsFalsy(data) THEN LimitResult(h, data, 0, FALSE, FALSE, <<>>)
    ELSE
    LET largeArrayInfo == findLargeArrayField(h, data, <<>>, N) IN
    IF ~largeArrayInfo.found THEN LimitResult(h, data, 0, FALSE, FALSE, <<>>)
    ELSE
    LET fieldPath == largeArrayInfo.fieldPath
        array == largeArrayInfo.array
        originalCount == Len(h[array.n].elems)
    IN
    IF largeArrayInfo.parentObj = VNull
    THEN LET sl == Slice(h, data, N)
         IN LimitResult(sl.heap, sl.val, originalCount, TRUE, TRUE, fieldPath)
    ELSE
    LET limitedData == JsonClone(h, data)
        pathParts == SplitDot(fieldPath)
        nav == Navigate(limitedData.heap, limitedData.val, pathParts, 1)
        lastKey == pathParts[Len(pathParts)]
        sl == Slice(limitedData.heap, array, N)
    IN
    \* assigning a property of null, undefined or a primitive throws
    IF nav.threw \/ ~IsRef(nav.target) THEN LimitThrew(limitedData.heap)
    ELSE LimitResult([sl.heap EXCEPT ![nav.target.n] = SetProp(@, lastKey, sl.val)],
                     limitedData.val, originalCount, TRUE, TRUE, fieldPath)

(***************************************************************************)
(* saveRawData: the file system, the clock and the file name.              *)
(***************************************************************************)
Digit(d) == <<"0", "1", "2", "3", "4", "5", "6", "7", "8", "9">>[d + 1]

RECURSIVE NumToStr(_)
\* String(n) for a natural number n
NumToStr(n) ==
    IF n < 10 THEN <<Digit(n)>> ELSE NumToStr(n \div 10) \o <<Digit(n % 10)>>

\* String(value) for a scalar parameter value
ToStr(v) ==
    CASE v.t = "num" -> NumToStr(v.n)
      [] v.t = "str" -> v.s
      [] v.t = "bool" -> IF v.n = 1 THEN <<"t", "r", "u", "e">> ELSE <<"f", "a", "l", "s", "e">>
      [] v.t = "null" -> <<"n", "u", "l", "l">>
      [] OTHER -> <<"u", "n", "d", "e", "f", "i", "n", "e", "d">>

\* the longest parameter value a file name holds: substring(0, 30)
MaxValueLen == 30

\* a mutation: the value is not cut
Substring0_Whole(str, k) == str

\* str.substring(0, k)
Substring0(str, k) == SubSeq(str, 1, Min(k, Len(str)))

\* the characters [a-zA-Z0-9_=-] a parameter block keeps
SafeChars ==
    {"a", "b", "c", "d", "e", "f", "g", "h", "i", "j", "k", "l", "m", "n",
     "o", "p", "q", "r", "s", "t", "u", "v", "w", "x", "y", "z", "A", "B",
     "C", "D", "E", "F", "G", "H", "I", "J", "K", "L", "M", "N", "O", "P",
     "Q", "R", "S", "T", "U", "V", "W", "X", "Y", "Z", "0", "1", "2", "3",
     "4", "5", "6", "7", "8", "9", "_", "=", "-"}

\* str.replace(/[^a-zA-Z0-9_=-]/g, '-')
Sanitize(str) == [i \in 1..Len(str) |-> IF str[i] \in SafeChars THEN str[i] ELSE "-"]

\* a mutation: the instant is left out of the time stamp
Timestamp_NoInstant(now) ==
    <<"1", "9", "7", "0", "-", "0", "1", "-", "0", "1", "T", "0", "0", "-", "0", "0", "-", "0", "0", "-">> \o <<"0", "0", "0", "Z">>

\* new Date().toISOString().replace(/[:.]/g, '-') at now milliseconds after
\* the epoch (now < 1000): 1970-01-01T00:00:00.00nZ with ':' and '.' replaced
Timestamp(now) ==
    LET ms == NumToStr(now)
        iso == <<"1", "9", "7", "0", "-", "0", "1", "-", "0", "1", "T", "0", "0", ":", "0", "0", ":", "0", "0", ".">>
               \o [i \in 1..(3 - Len(ms)) |-> "0"] \o ms \o <<"Z">>
    IN [i \in 1..Len(iso) |-> IF iso[i] \in {":", "."} THEN "-" ELSE iso[i]]

\* a mutation: no parameter is left out of the block
ParamsStr_KeepAll(params) ==
    IF ~params.given THEN <<>>
    ELSE LET relevantParams ==
                 Join([j \in 1..Len(params.keys) |->
                         params.keys[j] \o <<"=">>
                         \o Substring0(ToStr(params.vals[j]), MaxValueLen)],
                      <<"_">>)
         IN IF relevantParams # <<>> THEN <<"_">> \o Sanitize(relevantParams) ELSE <<>>

\* the parameter block of the file name; params is [given, keys, vals]
ParamsStr(params) ==
    IF ~params.given THEN <<>>
    ELSE LET kept == SelectSeq([i \in 1..Len(params.keys) |-> i],
                               LAMBDA i : /\ params.keys[i] # <<"r", "a", "w", "_", "d", "a", "t", "a", "_", "s", "a", "v", "e", "_", "d", "i", "r">>
                                          /\ params.vals[i].t \notin {"undef", "null"})
             relevantParams ==
                 Join([j \in 1..Len(kept) |->
                         params.keys[kept[j]] \o <<"=">>
                         \o Substring0(ToStr(params.vals[kept[j]]), MaxValueLen)],
                      <<"_">>)
         IN IF relevantParams # <<>> THEN <<"_">> \o Sanitize(relevantParams) ELSE <<>>

\* `${toolName}${paramsStr}_${timestamp}.json`
Filename(toolName, params, now) ==
    toolName \o ParamsStr(params) \o <<"_">> \o Timestamp(now) \o <<".", "j", "s", "o", "n">>

\* path.join(saveDir, filename) for a directory written without '.', '..'
\* or a trailing '/'
PathJoin(saveDir, filename) == saveDir \o <<"/">> \o filename

\* the bytes of one character in UTF-8: the characters of the model are
\* ASCII, but for the atom "<eacute>" that stands for U+00E9
CharBytes(c) == IF c = "<eacute>" THEN 2 ELSE 1

RECURSIVE StrBytes(_)
\* the bytes of a string in UTF-8
StrBytes(str) == IF Len(str) = 0 THEN 0 ELSE CharBytes(str[1]) + StrBytes(Tail(str))

\* a mutation: the size is the length of the text in characters
TokBytes_Chars(tk) ==
    CASE tk.k = "num" -> Len(NumToStr(tk.n))
      [] tk.k = "str" -> Len(tk.s) + 2
      [] tk.k = "bool" -> IF tk.n = 1 THEN 4 ELSE 5
      [] tk.k = "null" -> 4
      [] OTHER -> 1

\* the size in bytes of the text of one token (strings without escapes)
TokBytes(tk) ==
    CASE tk.k = "num" -> Len(NumToStr(tk.n))
      [] tk.k = "str" -> StrBytes(tk.s) + 2
      [] tk.k = "bool" -> IF tk.n = 1 THEN 4 ELSE 5
      [] tk.k = "null" -> 4
      [] OTHER -> 1

RECURSIVE TextBytes(_, _, _)
\* the size in bytes of the text JSON.stringify(v, null, 2) writes for the
\* tokens from position i on, at nesting depth d: a new line and two spaces
\* per level before every element, member and closing bracket of a
\* non-empty array or object, and a space after ':'
TextBytes(toks, i, d) ==
    IF i > Len(toks) THEN 0
    ELSE LET tk == toks[i] IN
         IF tk.k \in {"[", "{"}
         THEN IF toks[i + 1].k \in {"]", "}"}
              THEN 2 + TextBytes(toks, i + 2, d)
              ELSE 1 + 1 + 2 * (d + 1) + TextBytes(toks, i + 1, d + 1)
         ELSE IF tk.k \in {"]", "}"}
         THEN 1 + 2 * (d - 1) + 1 + TextBytes(toks, i + 1, d - 1)
         ELSE IF tk.k = ","
         THEN 1 + 1 + 2 * d + TextBytes(toks, i + 1, d)
         ELSE IF tk.k = ":"
         THEN 2 + TextBytes(toks, i + 1, d)
         ELSE TokBytes(tk) + TextBytes(toks, i + 1, d)

\* the files after fs.writeFileSync(filePath, content)
WriteFile(fsFiles, filePath, content) ==
    [p \in DOMAIN fsFiles \cup {filePath} |->
        IF p = filePath THEN content ELSE fsFiles[p]]

\* a mutation: a failed write is swallowed and the path is returned
SaveThrew_Swallowed(fsDirs, fsFiles, call) ==
    [threw |-> FALSE, failed |-> call, dirs |-> fsDirs, files |-> fsFiles,
     filePath |-> <<"l", "o", "s", "t">>, fileSize |-> 0]

\* what a saveRawData leaves when call ("mkdir" or "write") threw: the error
\* leaves saveRawData, nothing catches it
SaveThrew(fsDirs, fsFiles, call) ==
    [threw |-> TRUE, failed |-> call, dirs |-> fsDirs, files |-> fsFiles,
     filePath |-> <<>>, fileSize |-> 0]

\* saveRawData(data, saveDir, toolName, params) at clock now.  fault is the
\* call of the file system that fails in this invocation, if any: "mkdir",
\* "write" or "none"
saveRawData(h, data, saveDir, toolName, params, fsDirs, fsFiles, now, fault) ==
    IF saveDir \notin fsDirs /\ fault = "mkdir" THEN SaveThrew(fsDirs, fsFiles, "mkdir")
    ELSE
    LET dirs1 == fsDirs \cup {saveDir}
        filename == Filename(toolName, params, now)
        filePath == PathJoin(saveDir, filename)
        content == Stringify(h, data)
    IN IF fault = "write" THEN SaveThrew(dirs1, fsFiles, "write")
       ELSE LET files1 == WriteFile(fsFiles, filePath, content)
            IN [threw |-> FALSE, failed |-> "none", dirs |-> dirs1, files |-> files1,
                filePath |-> filePath,
                fileSize |-> TextBytes(files1[filePath], 1, 0)]

(***************************************************************************)
(* formatFileSize and generateJsonStructureTree.  In the outline the       *)
(* characters that are not ASCII are written as named atoms: "<nl>" the    *)
(* line feed, "<end>" the corner, "<tee>" the tee, "<bar>" the vertical    *)
(* bar and "<dash>" the horizontal bar of the tree drawing.                *)
(***************************************************************************)
\* a mutation: the digits after the first decimal are cut off
ToFixed1_Truncated(num, den) ==
    LET tenths == (num * 10) \div den
    IN NumToStr(tenths \div 10) \o <<".">> \o <<Digit(tenths % 10)>>

\* x.toFixed(1) for x = num / den with den a power of two (the quotient is
\* exact, a tie rounds up)
ToFixed1(num, den) ==
    LET tenths == (num * 10 + den \div 2) \div den
    IN NumToStr(tenths \div 10) \o <<".">> \o <<Digit(tenths % 10)>>

\* the bytes of a kilobyte and of a megabyte
KB == 1024
MB == KB * KB

\* formatFileSize(bytes)
formatFileSize(bytes) ==
    IF bytes < KB THEN NumToStr(bytes) \o <<" ", "B">>
    ELSE IF bytes < MB THEN ToFixed1(bytes, KB) \o <<" ", "K", "B">>
    ELSE ToFixed1(bytes, MB) \o <<" ", "M", "B">>

\* typeof v
TypeOf(v) ==
    CASE v.t = "num" -> <<"n", "u", "m", "b", "e", "r">>
      [] v.t = "str" -> <<"s", "t", "r", "i", "n", "g">>
      [] v.t = "bool" -> <<"b", "o", "o", "l", "e", "a", "n">>
      [] v.t = "undef" -> <<"u", "n", "d", "e", "f", "i", "n", "e", "d">>
      [] OTHER -> <<"o", "b", "j", "e", "c", "t">>

Nl == "<nl>"
\* '└── ' and '├── '
ConnEnd == <<"<end>", "<dash>", "<dash>", " ">>
ConnTee == <<"<tee>", "<dash>", "<dash>", " ">>
\* '    ' and '│   '
PadBlank == <<" ", " ", " ", " ">>
PadBar == <<"<bar>", " ", " ", " ">>

RECURSIVE generateJsonStructureTree(_, _, _, _)
\* a mutation: the type shown for an array of scalars is the one of its last
\* element
KeyLines_LastItem(h, obj, prefix, index) ==
    LET c == h[obj.n]
        value == c.vals[index]
        connector == IF index = Len(c.keys) THEN ConnEnd ELSE ConnTee
    IN IF IsArray(h, value) /\ Len(h[value.n].elems) > 0
       THEN LET es == h[value.n].elems IN
            <<prefix \o connector \o c.keys[index] \o <<":", " ", "A", "r", "r", "a", "y", "[">>
              \o NumToStr(Len(es)) \o <<"]", " ", "o", "f", " ">> \o TypeOf(es[Len(es)])>>
       ELSE <<prefix \o connector \o c.keys[index] \o <<":", " ">> \o TypeOf(value)>>

\* what the forEach callback pushes for the key at position index
KeyLines(h, obj, prefix, index) ==
    LET c == h[obj.n]
        key == c.keys[index]
        isLastKey == index = Len(c.keys)
        connector == IF isLastKey THEN ConnEnd ELSE ConnTee
        childPrefix == prefix \o (IF isLastKey THEN PadBlank ELSE PadBar)
        value == c.vals[index]
    IN IF value.t \in {"null", "undef"}
       THEN <<prefix \o connector \o key \o <<":", " ", "n", "u", "l", "l">>>>
       ELSE IF IsArray(h, value)
       THEN LET es == h[value.n].elems IN
            IF Len(es) = 0
            THEN <<prefix \o connector \o key \o <<":", " ", "[", "]">>>>
            ELSE IF TypeOf(es[1]) = <<"o", "b", "j", "e", "c", "t">>
            THEN LET itemTree == generateJsonStructureTree(h, es[1], childPrefix \o PadBlank, TRUE)
                     itemLines == Split(itemTree, Nl)
                 IN <<prefix \o connector \o key \o <<":", " ", "A", "r", "r", "a", "y", "[">> \o NumToStr(Len(es)) \o <<"]">>,
                      childPrefix \o ConnEnd \o <<"[", "i", "t", "e", "m", "]", ":">>,
                      Join([i \in 1..Len(itemLines) |-> childPrefix \o PadBlank \o itemLines[i]],
                           <<Nl>>)>>
            ELSE <<prefix \o connector \o key \o <<":", " ", "A", "r", "r", "a", "y", "[">> \o NumToStr(Len(es))
                   \o <<"]", " ", "o", "f", " ">> \o TypeOf(es[1])>>
       ELSE IF IsRef(value)
       THEN <<prefix \o connector \o key \o <<":">>,
              generateJsonStructureTree(h, value, childPrefix, TRUE)>>
       ELSE <<prefix \o connector \o key \o <<":", " ">> \o TypeOf(value)>>

RECURSIVE Flatten(_)
\* the sequences of seqs one after the other
Flatten(seqs) == IF Len(seqs) = 0 THEN <<>> ELSE seqs[1] \o Flatten(Tail(seqs))

\* generateJsonStructureTree(obj, prefix, isLast)
generateJsonStructureTree(h, obj, prefix, isLast) ==
    IF obj.t \in {"null", "undef"} THEN <<"n", "u", "l", "l">>
    ELSE IF IsArray(h, obj)
    THEN LET es == h[obj.n].elems IN
         IF Len(es) = 0 THEN <<"[", "]">>
         ELSE LET head == <<"A", "r", "r", "a", "y", "[">> \o NumToStr(Len(es)) \o <<"]">>
                  firstItem == es[1]
                  childPrefix == prefix \o (IF isLast THEN PadBlank ELSE PadBar)
              IN IF IsRef(firstItem)
                 THEN Join(<<head,
                             prefix \o ConnEnd \o <<"[", "0", "]", ":", " ">>
                             \o generateJsonStructureTree(h, firstItem, childPrefix, TRUE)>>,
                           <<Nl>>)
                 ELSE Join(<<head, prefix \o ConnEnd \o <<"[", "0", "]", ":", " ">> \o TypeOf(firstItem)>>, <<Nl>>)
    ELSE IF IsRef(obj)
    THEN LET c == h[obj.n] IN
         IF Len(c.keys) = 0 THEN <<"{", "}">>
         ELSE Join(Flatten([i \in 1..Len(c.keys) |-> KeyLines(h, obj, prefix, i)]), <<Nl>>)
    ELSE TypeOf(obj)

\* a mutation: the call for an array is made on its last element
OutlineCalls_LastItem(h, obj) ==
    IF obj.t \in {"null", "undef"} \/ ~IsRef(obj) THEN {}
    ELSE LET es == h[obj.n].elems IN
         IF Len(es) > 0 /\ IsRef(es[Len(es)]) THEN {es[Len(es)]} ELSE {}

\* the values on which a call generateJsonStructureTree(obj) calls itself:
\* the element 0 of an array when it is an object or an array (line 209),
\* the element 0 of an array held by a key when typeof says 'object' (line
\* 236), the object held by a key (line 243)
OutlineCalls(h, obj) ==
    IF obj.t \in {"null", "undef"} \/ ~IsRef(obj) THEN {}
    ELSE IF IsArray(h, obj)
    THEN LET es == h[obj.n].elems IN
         IF Len(es) > 0 /\ IsRef(es[1]) THEN {es[1]} ELSE {}
    ELSE LET c == h[obj.n] IN
         UNION {LET value == c.vals[i] IN
                IF value.t \in {"null", "undef"} THEN {}
                ELSE IF IsArray(h, value)
                THEN LET es == h[value.n].elems IN
                     IF Len(es) > 0 /\ TypeOf(es[1]) = <<"o", "b", "j", "e", "c", "t">>
                     THEN {es[1]} ELSE {}
                ELSE IF IsRef(value) THEN {value}
                ELSE {} : i \in 1..Len(c.keys)}

(***************************************************************************)
(* formatResponse.  The text is the sequence of its parts in the order of  *)
(* lines.push; a part holds the values its template puts into the line.    *)
(***************************************************************************)
Part(sec, str, str2, n, m, flag, toks) ==
    [sec |-> sec, str |-> str, str2 |-> str2, n |-> n, m |-> m, flag |-> flag,
     toks |-> toks]

\* `## ${options?.toolName || 'Response'}`
HeaderPart(options) ==
    Part("header", IF options.toolName # <<>> THEN options.toolName ELSE <<"R", "e", "s", "p", "o", "n", "s", "e">>,
         <<>>, 0, 0, FALSE, <<>>)

\* `> **Raw data saved to**: \`${filePath}\` (${formatFileSize(fileSize)})`
SavedPart(sv) == Part("saved", sv.filePath, formatFileSize(sv.fileSize), 0, 0, FALSE, <<>>)

\* `> **Note**: \`${limitedField}\` limited to ${N} items (${originalCount}
\* total). ` and 'Full data saved to file.' (flag) or the hint to provide
\* raw_data_save_dir
NotePart(lim, N, archived) ==
    Part("note", lim.limitedField, <<>>, N, lim.originalCount, archived, <<>>)

\* '### JSON Structure' and the outline in a fenced block
StructurePart(outline) == Part("structure", outline, <<>>, 0, 0, FALSE, <<>>)

\* a mutation: the header of the data section counts the objects allocated
\* so far
DataPart_Allocated(h, lim, N) ==
    IF lim.wasLimited
    THEN Part("data", IF lim.hasField THEN lim.limitedField ELSE <<"n", "u", "l", "l">>, <<>>,
              Len(h), lim.originalCount, TRUE, Stringify(h, lim.limited))
    ELSE Part("data", <<>>, <<>>, 0, 0, FALSE, Stringify(h, lim.limited))

\* '### Data' (flag: with `limitedField`: N/originalCount items) and the
\* limited value as indented JSON in a fenced block
DataPart(h, lim, N) ==
    IF lim.wasLimited
    THEN Part("data", IF lim.hasField THEN lim.limitedField ELSE <<"n", "u", "l", "l">>, <<>>,
              N, lim.originalCount, TRUE, Stringify(h, lim.limited))
    ELSE Part("data", <<>>, <<>>, 0, 0, FALSE, Stringify(h, lim.limited))

\* the outcome of the saveRawData of a formatResponse: not called, threw, or
\* the path and size it returned; and the file system it leaves
NoSave ==
    [called |-> FALSE, threw |-> FALSE, failed |-> "none", filePath |-> <<>>,
     fileSize |-> 0]

SaveOutcome(sv) ==
    [called |-> TRUE, threw |-> sv.threw, failed |-> sv.failed,
     filePath |-> sv.filePath, fileSize |-> sv.fileSize]

\* what a call of formatResponse leaves: the heap, the file system, the
\* outcome of its saveRawData and either the text or that it threw
FormatThrew(h, fsDirs, fsFiles, save) ==
    [heap |-> h, dirs |-> fsDirs, files |-> fsFiles, save |-> save,
     threw |-> TRUE, wasLimited |-> FALSE, text |-> <<>>]

\* a mutation: the limit notice is pushed before the archive notice
ResponseText_NoteFirst(options, N, save, lim) ==
    <<HeaderPart(options)>>
    \o (IF lim.wasLimited /\ lim.hasField /\ lim.limitedField # <<>>
        THEN <<NotePart(lim, N, save.called)>> ELSE <<>>)
    \o (IF save.called THEN <<SavedPart(save)>> ELSE <<>>)
    \o <<StructurePart(generateJsonStructureTree(lim.heap, lim.limited, <<>>, TRUE)),
         DataPart(lim.heap, lim, N)>>

\* lines 270-312: the text built from the saved file, if any, and the
\* result lim of limitItems
ResponseText(options, N, save, lim) ==
    <<HeaderPart(options)>>
    \o (IF save.called THEN <<SavedPart(save)>> ELSE <<>>)
    \o (IF lim.wasLimited /\ lim.hasField /\ lim.limitedField # <<>>
        THEN <<NotePart(lim, N, save.called)>> ELSE <<>>)
    \o <<StructurePart(generateJsonStructureTree(lim.heap, lim.limited, <<>>, TRUE)),
         DataPart(lim.heap, lim, N)>>

\* lines 268-312: after limitItems returned lim or threw
FormatAfterLimit(options, N, fsDirs, fsFiles, save, lim) ==
    IF lim.threw THEN FormatThrew(lim.heap, fsDirs, fsFiles, save)
    ELSE [heap |-> lim.heap, dirs |-> fsDirs, files |-> fsFiles, save |-> save,
          threw |-> FALSE, wasLimited |-> lim.wasLimited,
          text |-> ResponseText(options, N, save, lim)]

\* lines 263-265: saveRawData on data when options?.rawDataSaveDir is set
\* (the empty string is falsy), under the name options.toolName || 'response'
FormatSave(h, data, options, fsDirs, fsFiles, now, fault) ==
    IF options.given /\ options.rawDataSaveDir # <<>>
    THEN saveRawData(h, data, options.rawDataSaveDir,
                     IF options.toolName # <<>> THEN options.toolName ELSE <<"r", "e", "s", "p", "o", "n", "s", "e">>,
                     options.params, fsDirs, fsFiles, now, fault)
         @@ [called |-> TRUE]
    ELSE [called |-> FALSE, threw |-> FALSE, failed |-> "none", dirs |-> fsDirs,
          files |-> fsFiles, filePath |-> <<>>, fileSize |-> 0]

\* a mutation: the archive is written from the limited value
FormatAfterSave_ArchiveLimited(h, data, N, options, sv) ==
    LET lim == limitItems(h, data, N) IN
    FormatAfterLimit(options, N, sv.dirs,
                     IF sv.called /\ ~sv.threw /\ ~lim.threw
                     THEN WriteFile(sv.files, sv.filePath, Stringify(lim.heap, lim.limited))
                     ELSE sv.files,
                     [called |-> sv.called, threw |-> sv.threw, failed |-> sv.failed,
                      filePath |-> sv.filePath, fileSize |-> sv.fileSize],
                     lim)

\* lines 266-312: after the save sv; an error thrown by saveRawData leaves
\* formatResponse, nothing catches it
FormatAfterSave(h, data, N, options, sv) ==
    IF sv.called /\ sv.threw
    THEN FormatThrew(h, sv.dirs, sv.files,
                     [called |-> TRUE, threw |-> TRUE, failed |-> sv.failed,
                      filePath |-> <<>>, fileSize |-> 0])
    ELSE FormatAfterLimit(options, N, sv.dirs, sv.files,
                          [called |-> sv.called, threw |-> sv.threw, failed |-> sv.failed,
                           filePath |-> sv.filePath, fileSize |-> sv.fileSize],
                          limitItems(h, data, N))

\* formatResponse(data, options) of a handler with maxItemsForContext = N;
\* options is [given, rawDataSaveDir, toolName, params], an absent string
\* being the empty one (both are falsy)
formatResponse(h, data, options, N, fsDirs, fsFiles, now, fault) ==
    FormatAfterSave(h, data, N, options,
                    FormatSave(h, data, options, fsDirs, fsFiles, now, fault))

(***************************************************************************)
(* The input values: every JSON value a caller may pass, within the bounds. *)
(***************************************************************************)
\* the keys of objects: the empty string and a key that contains '.' are
\* legal JSON keys
Keys == {<<>>, <<"a">>, <<"b">>, <<"a", ".", "b">>}

\* [1, 2, ..., L]
NumArr(L) == TArr([i \in 1..L |-> TNum(i)])
\* [{a: 1}, {a: 2}, ..., {a: L}]
ObjArr(L) == TArr([i \in 1..L |-> TObj(<<<<"a">>>>, <<TNum(i)>>)])
\* a long array that is an element of a short array, directly or in an object
HiddenArrs ==
    {TArr(<<NumArr(MaxLen)>>), TArr(<<TObj(<<<<"a">>>>, <<NumArr(MaxLen)>>)>>)}

Arrs == {NumArr(L) : L \in 0..MaxLen} \cup {ObjArr(L) : L \in 1..MaxLen} \cup HiddenArrs

Leaves == {TNull, TNum(1)} \cup Arrs

\* objects of one field that holds a number or an array of numbers
Inner1 ==
    {TObj(<<>>, <<>>)}
    \cup {TObj(<<k>>, <<x>>) : k \in Keys, x \in {TNum(1)} \cup {NumArr(L) : L \in 0..MaxLen}}

\* objects of one field that holds an object of one field that holds an array
Inner2 ==
    {TObj(<<k1>>, <<TObj(<<k2>>, <<NumArr(L)>>)>>) :
        k1 \in Keys, k2 \in Keys, L \in {MaxLen - 1, MaxLen}}

\* the values of the fields of a root object of two fields
PairVals ==
    {TNum(1), ObjArr(MaxLen)} \cup {NumArr(L) : L \in 0..MaxLen}
    \cup {TObj(<<k>>, <<x>>) : k \in Keys, x \in {TNum(1), NumArr(MaxLen)}}

RootPrims ==
    {TNull, [TNull EXCEPT !.t = "undef"], TNum(0), TNum(5), TStr(<<>>),
     TStr(<<"s">>), TBool(FALSE), TBool(TRUE)}

Inputs ==
    RootPrims \cup Arrs \cup Inner1 \cup Inner2
    \cup {TObj(<<k>>, <<x>>) : k \in Keys, x \in Leaves \cup Inner1 \cup Inner2}
    \cup {TObj(<<ks[1], ks[2]>>, <<x1, x2>>) :
            ks \in {p \in Keys \X Keys : p[1] # p[2]}, x1 \in PairVals, x2 \in PairVals}

(***************************************************************************)
(* The inputs of the renderer and of the archiver.                         *)
(***************************************************************************)
RenderInputs ==
    {TNull, TNum(5), NumArr(1), NumArr(MaxLen), ObjArr(MaxLen),
     TObj(<<<<"a">>>>, <<NumArr(0)>>),
     TObj(<<<<"a">>>>, <<NumArr(MaxLen)>>),
     TObj(<<<<>>>>, <<NumArr(MaxLen)>>),
     TObj(<<<<"a", ".", "b">>>>, <<NumArr(MaxLen)>>),
     TObj(<<<<"a">>, <<"b">>>>, <<TObj(<<<<"b">>>>, <<ObjArr(MaxLen)>>), TNull>>)}

ArchiveInputs ==
    {TObj(<<<<"a">>>>, <<NumArr(1)>>),
     TObj(<<<<"a">>, <<"b">>>>, <<TStr(<<"c", "a", "f", "<eacute>">>), TObj(<<>>, <<>>)>>),
     ObjArr(MaxLen),
     TNull}

\* the values given to generateJsonStructureTree: scalars, empty containers,
\* arrays of up to MaxLen - 1 of them, objects that hold them
OutlineElems ==
    {TNull, TNum(7), TStr(<<"z", "q">>), TBool(TRUE), TObj(<<>>, <<>>),
     TObj(<<<<"a">>>>, <<TNull>>), TObj(<<<<"a">>>>, <<TNum(7)>>), TArr(<<>>),
     TArr(<<TNull>>)}

OutlineArrs ==
    UNION {{TArr(es) : es \in [1..L -> OutlineElems]} : L \in 0..(MaxLen - 1)}

OutlineInputs ==
    {[TNull EXCEPT !.t = "undef"]} \cup OutlineElems \cup OutlineArrs
    \cup {TObj(<<<<"a">>>>, <<x>>) : x \in OutlineArrs}
    \cup {TObj(<<<<"a">>, <<"b">>>>, <<x, TObj(<<<<"b">>>>, <<y>>)>>) :
            x \in OutlineElems, y \in OutlineElems \cup {TArr(<<TObj(<<<<"a">>>>, <<TArr(<<TNum(7)>>)>>)>>)}}

\* a directory that exists and a relative one that does not
ExistingDir == <<"/", "t">>
NewDir == <<"o", "u", "t">>

NoParams == [given |-> FALSE, keys |-> <<>>, vals |-> <<>>]
\* { first: 1 }
FirstParams == [given |-> TRUE, keys |-> <<<<"f", "i", "r", "s", "t">>>>, vals |-> <<VNum(1)>>]
\* 'raw_data_save_dir'
RawDataSaveDirKey ==
    <<"r", "a", "w", "_", "d", "a", "t", "a", "_", "s", "a", "v", "e", "_", "d", "i", "r">>
\* { featured: true, after: null, raw_data_save_dir: '/t' }
ExcludedParams ==
    [given |-> TRUE,
     keys |-> <<<<"f", "e", "a", "t", "u", "r", "e", "d">>, <<"a", "f", "t", "e", "r">>,
                RawDataSaveDirKey>>,
     vals |-> <<VBool(TRUE), VNull, VStr(ExistingDir)>>]
\* { q: 'raw_data_save_dir' }
EchoParams == [given |-> TRUE, keys |-> <<<<"q">>>>, vals |-> <<VStr(RawDataSaveDirKey)>>]
\* { q: 'a/b:cccc...' }, a value of MaxValueLen + 1 characters
LongParams ==
    [given |-> TRUE, keys |-> <<<<"q">>>>,
     vals |-> <<VStr(<<"a", "/", "b", ":">> \o [i \in 1..(MaxValueLen - 3) |-> "c"])>>]
ParamChoices == {NoParams, FirstParams, ExcludedParams, EchoParams, LongParams}

ToolNames == {<<"t">>}

\* the call of the file system that fails in an invocation, if any
Faults == {"none", "mkdir", "write"}

\* the byte counts given to formatFileSize: small ones, the ones around a
\* kilobyte and around a megabyte, quarters of a kilobyte and of a megabyte
\* (x.x5 is a tie of toFixed) and large ones
Sizes ==
    (0 .. 12) \cup {500} \cup ((KB - 3) .. (KB + 120))
    \cup {k * (KB \div 4) : k \in 1..12}
    \cup ((MB - 60) .. (MB + 3))
    \cup {k * (MB \div 4) + d : k \in 4..12, d \in {0, 1, MB \div 20}}
    \cup {100 * MB - 1, 100 * MB, 100 * MB + MB \div 4}

NoOptions == [given |-> FALSE, rawDataSaveDir |-> <<>>, toolName |-> <<>>, params |-> NoParams]
OptionChoices ==
    {NoOptions}
    \cup {[given |-> TRUE, rawDataSaveDir |-> <<>>, toolName |-> tn, params |-> NoParams] :
            tn \in {<<>>} \cup ToolNames}
    \cup {[given |-> TRUE, rawDataSaveDir |-> NewDir, toolName |-> tn, params |-> ps] :
            tn \in {<<>>} \cup ToolNames, ps \in {NoParams, FirstParams}}

\* the options of a caller that repeats its invocations: none, or an archive
\* directory and a tool name
RepeatChoices ==
    {NoOptions,
     [given |-> TRUE, rawDataSaveDir |-> NewDir, toolName |-> <<"t">>, params |-> NoParams]}

(***************************************************************************)
(* The state.                                                              *)
(***************************************************************************)
VARIABLES
    heap,                 \* the cells of the JavaScript heap, by address
    data,                 \* the value the caller passes to the handler
    src,                  \* the tree of data as the caller built it
    maxItemsForContext,   \* this.config.maxItemsForContext
    found,                \* what the last findLargeArrayField returned
    res,                  \* what the last limitItems returned, or that it threw
    dirs,                 \* the directories of the file system
    files,                \* the files of the file system: path -> JSON text
    now,                  \* the clock, in milliseconds
    saved,                \* what the last saveRawData returned, or that it threw
                          \* and the call of the file system that failed
    out,                  \* what the last formatResponse returned, or that it threw,
                          \* the options it took and the instant it began
    log,                  \* the saveRawData invocations that returned: instant,
                          \* arguments and path
    size,                 \* what the last formatFileSize took and returned
    tree,                 \* what the last generateJsonStructureTree returned
    reply,                \* how the last tool-call request left the request
                          \* handler of the server
    peer,                 \* a second handler: its threshold and what its last
                          \* limitItems returned
    calls                 \* the operations applied so far

vars ==
    <<heap, data, src, maxItemsForContext, found, res, dirs, files, now, saved,
      out, log, size, tree, reply, peer, calls>>

(***************************************************************************)
(* The servers: the handler of tool-call requests and the tool methods of  *)
(* index.ts and of part_000.  A thrown value is an McpError with the code  *)
(* and the message its constructor was given, an Error with its message,   *)
(* or a value that is not an Error.  What the API answers is upstream: the *)
(* request is rejected with an Error ("rejects") or with another value     *)
(* ("other"), the answer holds GraphQL errors ("errors"), no data          *)
(* ("nodata") or the data of a number of edges ("data").                   *)
(***************************************************************************)
McpError(code, message) == [kind |-> "McpError", code |-> code, message |-> message]
Error(message) == [kind |-> "Error", code |-> "", message |-> message]
NotAnError == [kind |-> "other", code |-> "", message |-> <<>>]
NoError == [kind |-> "none", code |-> "", message |-> <<>>]

GetPostName == <<"g", "e", "t", "_", "p", "o", "s", "t">>
GetPostsName == <<"g", "e", "t", "_", "p", "o", "s", "t", "s">>

NoText == [toon |-> TNull, json |-> <<>>, note |-> <<>>]
\* what a tool method leaves: the result it returns or the value it throws,
\* and the file system
ToolReturn(text, saveTried, fsDirs, fsFiles) ==
    [threw |-> FALSE, error |-> NoError, text |-> text, saveTried |-> saveTried,
     dirs |-> fsDirs, files |-> fsFiles]
ToolThrow(error, fsDirs, fsFiles) ==
    [threw |-> TRUE, error |-> error, text |-> NoText, saveTried |-> FALSE,
     dirs |-> fsDirs, files |-> fsFiles]

\* executeGraphQL of part_000
executeGraphQL(upstream) ==
    CASE upstream.kind = "rejects" -> [threw |-> TRUE, error |-> Error(<<"t", "i", "m", "e", "o", "u", "t">>)]
      [] upstream.kind = "other" -> [threw |-> TRUE, error |-> NotAnError]
      [] upstream.kind = "errors" ->
           [threw |-> TRUE, error |-> Error(<<"G", "r", "a", "p", "h", "Q", "L", ":", " ">> \o <<"b", "a", "d">>)]
      [] upstream.kind = "nodata" ->
           [threw |-> TRUE, error |-> Error(<<"N", "o", " ", "d", "a", "t", "a", " ", "r", "e", "t", "u", "r", "n", "e", "d">>)]
      [] OTHER -> [threw |-> FALSE, error |-> NoError]

\* executeGraphQL of index.ts: a rejected request is an axios error without
\* a response
IndexExecuteGraphQL(upstream) ==
    CASE upstream.kind = "rejects" ->
           [threw |-> TRUE,
            error |-> Error(<<"P", "r", "o", "d", "u", "c", "t", " ", "H", "u", "n", "t", " ", "A", "P", "I", " ", "e", "r", "r", "o", "r", " ", "(", "5", "0", "0", ")", ":", " ">> \o <<"t", "i", "m", "e", "o", "u", "t">>)]
      [] upstream.kind = "other" -> [threw |-> TRUE, error |-> NotAnError]
      [] upstream.kind = "errors" ->
           [threw |-> TRUE, error |-> Error(<<"G", "r", "a", "p", "h", "Q", "L", " ", "e", "r", "r", "o", "r", "s", ":", " ">> \o <<"b", "a", "d">>)]
      [] upstream.kind = "nodata" ->
           [threw |-> TRUE, error |-> Error(<<"N", "o", " ", "d", "a", "t", "a", " ", "r", "e", "t", "u", "r", "n", "e", "d", " ", "f", "r", "o", "m", " ", "A", "P", "I">>)]
      [] OTHER -> [threw |-> FALSE, error |-> NoError]

\* the node of the edge at position i of the answer: of its fields the model
\* keeps the id
Node(i) == TObj(<<<<"i", "d">>>>, <<TNum(i)>>)
\* DataCleaners.cleanPost and cleanPostListItem
cleanPost(raw) == IF raw.t = "null" THEN TNull ELSE TObj(<<<<"i", "d">>>>, <<raw.vals[1]>>)
cleanPostListItem(raw) == IF raw.t = "null" THEN TNull ELSE TObj(<<<<"i", "d">>>>, <<raw.vals[1]>>)

\* seq.slice(0, end): a negative end counts from the end of seq
SliceTo(seq, end) ==
    LET stop == IF end < 0 THEN (IF Len(seq) + end < 0 THEN 0 ELSE Len(seq) + end)
                ELSE Min(end, Len(seq))
    IN SubSeq(seq, 1, stop)

DefaultMaxItems == 10

RECURSIVE StringifyTree(_)
\* JSON.stringify(tr, null, 2) of a value the server built: the tokens of
\* the text (a field that holds undefined is left out)
StringifyTree(tr) ==
    CASE tr.t \in {"null", "undef"} -> <<Tok("null")>>
      [] tr.t = "num" -> <<TokNum(tr.n)>>
      [] tr.t = "str" -> <<TokStr(tr.s)>>
      [] tr.t = "bool" -> <<TokBool(tr.n)>>
      [] tr.t = "arr" ->
           <<Tok("[")>>
           \o Join([i \in 1..Len(tr.items) |-> StringifyTree(tr.items[i])], <<Tok(",")>>)
           \o <<Tok("]")>>
      [] OTHER ->
           LET kept == SelectSeq([i \in 1..Len(tr.keys) |-> i],
                                 LAMBDA i : tr.vals[i].t # "undef")
           IN <<Tok("{")>>
              \o Join([j \in 1..Len(kept) |->
                         <<TokStr(tr.keys[kept[j]]), Tok(":")>>
                         \o StringifyTree(tr.vals[kept[j]])],
                      <<Tok(",")>>)
              \o <<Tok("}")>>

\* a mutation: a failure of the file system leaves saveData
saveData_Throws(output, dir, toolName, fsDirs, fsFiles, instant, fault) ==
    IF fault # "none"
    THEN [threw |-> TRUE, ret |-> <<>>, dirs |-> fsDirs, files |-> fsFiles]
    ELSE LET filepath == PathJoin(dir, toolName \o <<"_">> \o Timestamp(instant)
                                       \o <<".", "j", "s", "o", "n">>)
         IN [threw |-> FALSE, ret |-> filepath, dirs |-> fsDirs \cup {dir},
             files |-> WriteFile(fsFiles, filepath, StringifyTree(output))]

\* saveData(data, dir, toolName) of part_000: the path of the file written, or
\* 'Error saving: ' and the error that mkdirSync or writeFileSync threw
saveData(output, dir, toolName, fsDirs, fsFiles, instant, fault) ==
    IF dir \notin fsDirs /\ fault = "mkdir"
    THEN [threw |-> FALSE, ret |-> <<"E", "r", "r", "o", "r", " ", "s", "a", "v", "i", "n", "g", ":", " ", "E", "r", "r", "o", "r", ":", " ", "m", "k", "d", "i", "r">>,
          dirs |-> fsDirs, files |-> fsFiles]
    ELSE
    LET dirs1 == fsDirs \cup {dir}
        filename == toolName \o <<"_">> \o Timestamp(instant) \o <<".", "j", "s", "o", "n">>
        filepath == PathJoin(dir, filename)
    IN IF fault = "write"
       THEN [threw |-> FALSE, ret |-> <<"E", "r", "r", "o", "r", " ", "s", "a", "v", "i", "n", "g", ":", " ", "E", "r", "r", "o", "r", ":", " ", "w", "r", "i", "t", "e">>,
             dirs |-> dirs1, files |-> fsFiles]
       ELSE [threw |-> FALSE, ret |-> filepath, dirs |-> dirs1,
             files |-> WriteFile(fsFiles, filepath, StringifyTree(output))]

\* the note formatResponse of part_000 appends for savedPath
SavedNote(savedPath) ==
    <<Nl, Nl>> \o <<"[", "C", "l", "e", "a", "n", "e", "d", " ", "d", "a", "t", "a", " ", "s", "a", "v", "e", "d", " ", "t", "o", ":", " ">> \o savedPath \o <<"]">>

\* formatResponse(cleanedData, { saveDir, toolName, pagination }) of part_000;
\* an option that is not given is <<>> (saveDir, toolName) or TNull
\* (pagination).  The text is encode(output) followed by the note: the model
\* keeps the value that is encoded (toon) and the characters after it (note)
ServerFormatResponse(cleanedData, saveDir, toolName, pagination, fsDirs, fsFiles, instant, fault) ==
    LET output ==
            IF pagination.t = "null" THEN TObj(<<<<"d", "a", "t", "a">>>>, <<cleanedData>>)
            ELSE TObj(<<<<"d", "a", "t", "a">>, <<"p", "a", "g", "i", "n", "a", "t", "i", "o", "n">>>>,
                      <<cleanedData,
                        TObj(<<<<"h", "a", "s", "N", "e", "x", "t", "P", "a", "g", "e">>, <<"e", "n", "d", "C", "u", "r", "s", "o", "r">>, <<"t", "o", "t", "a", "l">>>>,
                             <<pagination.vals[1], pagination.vals[2], pagination.vals[3]>>)>>)
        tried == saveDir # <<>> /\ toolName # <<>>
        sv == IF tried THEN saveData(output, saveDir, toolName, fsDirs, fsFiles, instant, fault)
              ELSE [threw |-> FALSE, ret |-> <<>>, dirs |-> fsDirs, files |-> fsFiles]
    IN IF sv.threw THEN ToolThrow(Error(<<"w", "r", "i", "t", "e">>), sv.dirs, sv.files)
       ELSE ToolReturn([toon |-> output, json |-> <<>>,
                        note |-> IF sv.ret # <<>> THEN SavedNote(sv.ret) ELSE <<>>],
                       tried, sv.dirs, sv.files)

\* getPost(args) of part_000; the answer holds the post when it has an edge
getPost(args, upstream, fsDirs, fsFiles, instant, fault) ==
    IF ~args.id
    THEN ToolThrow(Error(<<"A", "t", " ", "l", "e", "a", "s", "t", " ", "o", "n", "e", " ", "o", "f", " ", "i", "d", " ", "o", "r", " ", "s", "l", "u", "g", " ", "i", "s", " ", "r", "e", "q", "u", "i", "r", "e", "d">>), fsDirs, fsFiles)
    ELSE LET g == executeGraphQL(upstream) IN
         IF g.threw THEN ToolThrow(g.error, fsDirs, fsFiles)
         ELSE ServerFormatResponse(cleanPost(IF upstream.edges = 0 THEN TNull ELSE Node(1)),
                                   args.save_dir, GetPostName, TNull,
                                   fsDirs, fsFiles, instant, fault)

\* getPosts(args) of part_000
getPosts(args, upstream, fsDirs, fsFiles, instant, fault) ==
    LET g == executeGraphQL(upstream) IN
    IF g.threw THEN ToolThrow(g.error, fsDirs, fsFiles)
    ELSE LET edges == [i \in 1..upstream.edges |-> Node(i)]
             \* args.max_items || 10
             maxItems == IF args.max_items.given /\ args.max_items.n # 0
                         THEN args.max_items.n ELSE DefaultMaxItems
             sliced == SliceTo(edges, maxItems)
             cleaned == [i \in 1..Len(sliced) |-> cleanPostListItem(sliced[i])]
         IN ServerFormatResponse(TArr(cleaned), args.save_dir, GetPostsName,
                                 TObj(<<<<"h", "a", "s", "N", "e", "x", "t", "P", "a", "g", "e">>, <<"e", "n", "d", "C", "u", "r", "s", "o", "r">>, <<"t", "o", "t", "a", "l", "C", "o", "u", "n", "t">>>>,
                                      <<TBool(FALSE), TNull, TNum(upstream.edges)>>),
                                 fsDirs, fsFiles, instant, fault)

\* formatResponse(data) of index.ts: the text is JSON.stringify(data, null, 2)
IndexFormatResponse(tr, fsDirs, fsFiles) ==
    ToolReturn([toon |-> TNull, json |-> StringifyTree(tr), note |-> <<>>],
               FALSE, fsDirs, fsFiles)

\* getPost(args) and getPosts(args) of index.ts
IndexGetPost(args, upstream, fsDirs, fsFiles) ==
    IF ~args.id
    THEN ToolThrow(Error(<<"A", "t", " ", "l", "e", "a", "s", "t", " ", "o", "n", "e", " ", "o", "f", " ", "i", "d", " ", "o", "r", " ", "s", "l", "u", "g", " ", "i", "s", " ", "r", "e", "q", "u", "i", "r", "e", "d">>), fsDirs, fsFiles)
    ELSE LET g == IndexExecuteGraphQL(upstream) IN
         IF g.threw THEN ToolThrow(g.error, fsDirs, fsFiles)
         ELSE IndexFormatResponse(IF upstream.edges = 0 THEN TNull ELSE Node(1),
                                  fsDirs, fsFiles)

IndexGetPosts(args, upstream, fsDirs, fsFiles) ==
    LET g == IndexExecuteGraphQL(upstream) IN
    IF g.threw THEN ToolThrow(g.error, fsDirs, fsFiles)
    ELSE IndexFormatResponse(
             TObj(<<<<"e", "d", "g", "e", "s">>>>,
                  <<TArr([i \in 1..upstream.edges |-> TObj(<<<<"n", "o", "d", "e">>>>, <<Node(i)>>)])>>),
             fsDirs, fsFiles)

\* a mutation: the catch block wraps every thrown value
Catch_WrapsAll(error, unknown) ==
    McpError("InternalError",
             <<"P", "r", "o", "d", "u", "c", "t", " ", "H", "u", "n", "t", " ", "A", "P", "I", " ", "e", "r", "r", "o", "r", ":", " ">>
             \o (IF error.kind \in {"Error", "McpError"} THEN error.message ELSE unknown))

\* the catch block of the request handler: an McpError is thrown again, any
\* other value is wrapped; unknown is the message for a value that is not an
\* Error
Catch(error, unknown) ==
    IF error.kind = "McpError" THEN error
    ELSE McpError("InternalError",
                  <<"P", "r", "o", "d", "u", "c", "t", " ", "H", "u", "n", "t", " ", "A", "P", "I", " ", "e", "r", "r", "o", "r", ":", " ">>
                  \o (IF error.kind = "Error" THEN error.message ELSE unknown))

\* the handler of CallToolRequestSchema of part_000
HandleCallTool(name, args, upstream, fsDirs, fsFiles, instant, fault) ==
    LET t == IF ~args.given
             THEN ToolThrow(McpError("InvalidParams", <<"M", "i", "s", "s", "i", "n", "g", " ", "a", "r", "g", "u", "m", "e", "n", "t", "s">>), fsDirs, fsFiles)
             ELSE CASE name = GetPostName ->
                         getPost(args, upstream, fsDirs, fsFiles, instant, fault)
                    [] name = GetPostsName ->
                         getPosts(args, upstream, fsDirs, fsFiles, instant, fault)
                    [] OTHER ->
                         ToolThrow(McpError("MethodNotFound", <<"U", "n", "k", "n", "o", "w", "n", " ", "t", "o", "o", "l", ":", " ">> \o name),
                                   fsDirs, fsFiles)
    IN IF t.threw THEN [t EXCEPT !.error = Catch(t.error, <<"U", "n", "k", "n", "o", "w", "n", " ", "e", "r", "r", "o", "r">>)] ELSE t

\* the handler of CallToolRequestSchema of index.ts
IndexHandleCallTool(name, args, upstream, fsDirs, fsFiles) ==
    LET t == IF ~args.given
             THEN ToolThrow(McpError("InvalidParams", <<"M", "i", "s", "s", "i", "n", "g", " ", "a", "r", "g", "u", "m", "e", "n", "t", "s">>), fsDirs, fsFiles)
             ELSE CASE name = GetPostName -> IndexGetPost(args, upstream, fsDirs, fsFiles)
                    [] name = GetPostsName -> IndexGetPosts(args, upstream, fsDirs, fsFiles)
                    [] OTHER ->
                         ToolThrow(McpError("MethodNotFound", <<"U", "n", "k", "n", "o", "w", "n", " ", "t", "o", "o", "l", ":", " ">> \o name),
                                   fsDirs, fsFiles)
    IN IF t.threw THEN [t EXCEPT !.error = Catch(t.error, <<"U", "n", "k", "n", "o", "w", "n", " ", "e", "r", "r", "o", "r", " ", "o", "c", "c", "u", "r", "r", "e", "d">>)] ELSE t

\* the requests: tool names, arguments and what the API answers
RequestNames == {GetPostName, GetPostsName, <<"n", "o", "p", "e">>}
NoArgs ==
    [given |-> FALSE, id |-> FALSE, max_items |-> [given |-> FALSE, n |-> 0],
     save_dir |-> <<>>]
ArgChoices ==
    {NoArgs}
    \cup {[given |-> TRUE, id |-> i, max_items |-> m, save_dir |-> d] :
            i \in BOOLEAN,
            m \in {[given |-> FALSE, n |-> 0]}
                  \cup {[given |-> TRUE, n |-> k] : k \in (0 - 1)..MaxN},
            d \in {<<>>, ExistingDir, NewDir}}
Upstreams ==
    {[kind |-> k, edges |-> 0] : k \in {"rejects", "other", "errors", "nodata"}}
    \cup {[kind |-> "data", edges |-> E] : E \in {0, 1, MaxLen, DefaultMaxItems + 1}}

NoFound == [status |-> "none", r |-> NotFound]
NoRes == [status |-> "none", r |-> LimitThrew(<<>>)]
NoTree == [status |-> "none", text |-> <<>>]
NoReply ==
    [status |-> "none", server |-> "", name |-> <<>>, args |-> NoArgs,
     upstream |-> [kind |-> "data", edges |-> 0], fault |-> "none",
     instant |-> 0, error |-> NoError, text |-> NoText, saveTried |-> FALSE]
NoPeer == [status |-> "none", maxItemsForContext |-> 0, res |-> NoRes]
NoSize == [status |-> "none", bytes |-> 0, text |-> <<>>]
NoOut ==
    [status |-> "none", wasLimited |-> FALSE, text |-> <<>>, options |-> NoOptions,
     now |-> 0]

\* the caller holds a JSON value of the set inputs and a handler constructed
\* with a threshold of the set thresholds; the file system holds one
\* directory and no file
InitWith(inputs, thresholds) ==
    /\ src \in inputs
    /\ LET b == Build(<<>>, src) IN heap = b.heap /\ data = b.val
    /\ maxItemsForContext \in thresholds
    /\ found = NoFound
    /\ res = NoRes
    /\ dirs = {ExistingDir}
    /\ files = <<>>
    /\ now = 0
    /\ saved = NoSave
    /\ out = NoOut
    /\ log = <<>>
    /\ size = NoSize
    /\ tree = NoTree
    /\ reply = NoReply
    /\ peer = NoPeer
    /\ calls = 0

Init == InitWith(Inputs, 1..MaxN)

\* handler.findLargeArrayField(data)
FindLargeArrayField ==
    /\ calls < MaxCalls
    /\ found' = [status |-> "returned",
                 r |-> findLargeArrayField(heap, data, <<>>, maxItemsForContext)]
    /\ calls' = calls + 1
    /\ UNCHANGED <<heap, data, src, maxItemsForContext, res, dirs, files, now,
                   saved, out, log, size,
                   tree, reply, peer>>

\* handler.limitItems(data)
LimitItems ==
    /\ calls < MaxCalls
    /\ LET r == limitItems(heap, data, maxItemsForContext) IN
       /\ heap' = r.heap
       /\ res' = [status |-> IF r.threw THEN "threw" ELSE "returned",
                  r |-> [r EXCEPT !.heap = <<>>]]
    /\ calls' = calls + 1
    /\ UNCHANGED <<data, src, maxItemsForContext, found, dirs, files, now,
                   saved, out, log, size,
                   tree, reply, peer>>

\* handler.limitItems(limited): the caller passes the value limitItems
\* returned to limitItems again
Relimit ==
    /\ calls < MaxCalls
    /\ res.status = "returned"
    /\ LET r == limitItems(heap, res.r.limited, maxItemsForContext) IN
       /\ heap' = r.heap
       /\ res' = [status |-> IF r.threw THEN "threw" ELSE "returned",
                  r |-> [r EXCEPT !.heap = <<>>]]
    /\ calls' = calls + 1
    /\ UNCHANGED <<data, src, maxItemsForContext, found, dirs, files, now,
                   saved, out, log, size,
                   tree, reply, peer>>

\* new JsonResponseHandler({ maxItemsForContext: N }): a second handler
ConstructPeer(N) ==
    /\ peer.status = "none"
    /\ peer' = [status |-> "constructed", maxItemsForContext |-> N, res |-> NoRes]
    /\ UNCHANGED <<heap, data, src, maxItemsForContext, found, res, dirs, files,
                   now, saved, out, log, size, tree, reply, calls>>

\* a mutation: the second handler reads the configuration of the first
PeerLimitItems_SharedConfig ==
    /\ calls < MaxCalls
    /\ peer.status = "constructed"
    /\ LET r == limitItems(heap, data, maxItemsForContext) IN
       /\ heap' = r.heap
       /\ peer' = [peer EXCEPT !.res = [status |-> IF r.threw THEN "threw" ELSE "returned",
                                        r |-> [r EXCEPT !.heap = <<>>]]]
    /\ calls' = calls + 1
    /\ UNCHANGED <<data, src, maxItemsForContext, found, res, dirs, files, now,
                   saved, out, log, size, tree, reply>>

\* limitItems(data) of the second handler
PeerLimitItems ==
    /\ calls < MaxCalls
    /\ peer.status = "constructed"
    /\ LET r == limitItems(heap, data, peer.maxItemsForContext) IN
       /\ heap' = r.heap
       /\ peer' = [peer EXCEPT !.res = [status |-> IF r.threw THEN "threw" ELSE "returned",
                                        r |-> [r EXCEPT !.heap = <<>>]]]
    /\ calls' = calls + 1
    /\ UNCHANGED <<data, src, maxItemsForContext, found, res, dirs, files, now,
                   saved, out, log, size, tree, reply>>

\* handler.formatResponse(data, options)
FormatResponse(options, fault) ==
    /\ calls < MaxCalls
    /\ LET r == formatResponse(heap, data, options, maxItemsForContext, dirs,
                               files, now, fault) IN
       /\ heap' = r.heap
       /\ dirs' = r.dirs
       /\ files' = r.files
       /\ saved' = r.save
       /\ out' = [status |-> IF r.threw THEN "threw" ELSE "returned",
                  wasLimited |-> r.wasLimited, text |-> r.text,
                  options |-> options, now |-> now]
       /\ log' = IF r.save.called /\ ~r.save.threw
                 THEN Append(log, [now |-> now, filePath |-> r.save.filePath,
                                   saveDir |-> options.rawDataSaveDir,
                                   toolName |-> IF options.toolName # <<>> THEN options.toolName
                                                ELSE <<"r", "e", "s", "p", "o", "n", "s", "e">>,
                                   params |-> options.params])
                 ELSE log
    /\ calls' = calls + 1
    /\ UNCHANGED <<data, src, maxItemsForContext, found, res, now, size,
                   tree, reply, peer>>

\* handler.saveRawData(data, saveDir, toolName, params)
SaveRawData(saveDir, toolName, params, fault) ==
    /\ calls < MaxSaves
    /\ LET sv == saveRawData(heap, data, saveDir, toolName, params, dirs, files,
                             now, fault) IN
       /\ dirs' = sv.dirs
       /\ files' = sv.files
       /\ saved' = SaveOutcome(sv)
       /\ log' = IF sv.threw THEN log
                 ELSE Append(log, [now |-> now, filePath |-> sv.filePath,
                                   saveDir |-> saveDir, toolName |-> toolName,
                                   params |-> params])
    /\ calls' = calls + 1
    /\ UNCHANGED <<heap, data, src, maxItemsForContext, found, res, now, out, size,
                   tree, reply, peer>>

\* handler.formatFileSize(bytes)
FormatFileSize(bytes) ==
    /\ calls < MaxCalls
    /\ size' = [status |-> "returned", bytes |-> bytes, text |-> formatFileSize(bytes)]
    /\ calls' = calls + 1
    /\ UNCHANGED <<heap, data, src, maxItemsForContext, found, res, dirs, files,
                   now, saved, out, log,
                   tree, reply, peer>>

\* handler.generateJsonStructureTree(data)
GenerateJsonStructureTree ==
    /\ calls < MaxCalls
    /\ tree' = [status |-> "returned",
                text |-> generateJsonStructureTree(heap, data, <<>>, TRUE)]
    /\ calls' = calls + 1
    /\ UNCHANGED <<heap, data, src, maxItemsForContext, found, res, dirs, files,
                   now, saved, out, log, size, reply, peer>>

\* a millisecond passes
Tick ==
    /\ now < MaxClock
    /\ now' = now + 1
    /\ UNCHANGED <<heap, data, src, maxItemsForContext, found, res, dirs, files,
                   saved, out, log, size, calls,
                   tree, reply, peer>>

\* the locator and the limiter applied to any input
Next == FindLargeArrayField \/ LimitItems

Spec == Init /\ [][Next]_vars

\* the renderer, with and without an archive directory, with the file
\* system failing or not
RenderInit == InitWith(RenderInputs, 1..MaxN)

RenderNext == \E options \in OptionChoices, fault \in Faults : FormatResponse(options, fault)

RenderSpec == RenderInit /\ [][RenderNext]_vars

\* limitItems applied to the caller's value, then to its own results
IterateNext ==
    \/ res.status = "none" /\ LimitItems
    \/ Relimit

IterateSpec == Init /\ [][IterateNext]_vars

\* two handlers with their own thresholds used on the same value in any order
PairNext ==
    \/ \E N \in 1..(MaxN + 1) : ConstructPeer(N)
    \/ FindLargeArrayField
    \/ LimitItems
    \/ PeerLimitItems

PairSpec == InitWith(Arrs \cup Inner1 \cup Inner2, 1..MaxN) /\ [][PairNext]_vars

\* a tool-call request handled by the server of part_000
CallTool(name, args, upstream, fault) ==
    /\ calls < MaxCalls
    /\ LET t == HandleCallTool(name, args, upstream, dirs, files, now, fault) IN
       /\ reply' = [status |-> IF t.threw THEN "threw" ELSE "returned",
                    server |-> "part_000", name |-> name, args |-> args,
                    upstream |-> upstream, fault |-> fault, instant |-> now,
                    error |-> t.error,
                    text |-> t.text, saveTried |-> t.saveTried]
       /\ dirs' = t.dirs
       /\ files' = t.files
    /\ calls' = calls + 1
    /\ UNCHANGED <<heap, data, src, maxItemsForContext, found, res, now, saved,
                   out, log, size, tree, peer>>

\* a tool-call request handled by the server of index.ts
IndexCallTool(name, args, upstream) ==
    /\ calls < MaxCalls
    /\ LET t == IndexHandleCallTool(name, args, upstream, dirs, files) IN
       /\ reply' = [status |-> IF t.threw THEN "threw" ELSE "returned",
                    server |-> "index", name |-> name, args |-> args,
                    upstream |-> upstream, fault |-> "none", instant |-> now,
                    error |-> t.error,
                    text |-> t.text, saveTried |-> t.saveTried]
       /\ dirs' = t.dirs
       /\ files' = t.files
    /\ calls' = calls + 1
    /\ UNCHANGED <<heap, data, src, maxItemsForContext, found, res, now, saved,
                   out, log, size, tree, peer>>

\* one request to one of the servers, at any instant
ServerNext ==
    \/ /\ reply.status = "none"
       /\ \E name \in RequestNames, args \in ArgChoices, upstream \in Upstreams,
             fault \in Faults : CallTool(name, args, upstream, fault)
    \/ /\ reply.status = "none"
       /\ \E name \in RequestNames, args \in ArgChoices, upstream \in Upstreams :
             IndexCallTool(name, args, upstream)
    \/ Tick

ServerSpec == InitWith({TNull}, {MaxN}) /\ [][ServerNext]_vars

\* the renderer invoked again and again while the clock advances
RepeatNext ==
    \/ \E options \in RepeatChoices : FormatResponse(options, "none")
    \/ Tick

RepeatSpec == RenderInit /\ [][RepeatNext]_vars

\* the summarizer applied to any value
OutlineNext == GenerateJsonStructureTree

OutlineSpec == InitWith(OutlineInputs, {MaxN}) /\ [][OutlineNext]_vars

\* formatFileSize applied to byte counts
SizeInit == InitWith({TNull}, {MaxN})

SizeNext == \E bytes \in Sizes : FormatFileSize(bytes)

SizeSpec == SizeInit /\ [][SizeNext]_vars

\* the archiver invoked again and again while the clock advances
ArchiveInit == InitWith(ArchiveInputs, {MaxN})

ArchiveNext ==
    \/ \E saveDir \in {ExistingDir, NewDir}, toolName \in ToolNames,
          params \in ParamChoices, fault \in Faults :
          SaveRawData(saveDir, toolName, params, fault)
    \/ Tick

ArchiveSpec == ArchiveInit /\ [][ArchiveNext]_vars

(***************************************************************************)
(* What the claims speak of, defined on the tree of the input.             *)
(***************************************************************************)
\* tree tr is an array longer than N
LongArr(tr, N) == tr.t = "arr" /\ Len(tr.items) > N

RECURSIVE BigPaths(_, _)
\* the key sequences that lead from object tr, through object keys only, to
\* an array longer than N
BigPaths(tr, N) ==
    IF tr.t # "obj" THEN {}
    ELSE UNION {IF LongArr(tr.vals[i], N) THEN {<<tr.keys[i]>>}
                ELSE {<<tr.keys[i]>> \o p : p \in BigPaths(tr.vals[i], N)} :
                i \in 1..Len(tr.keys)}

RECURSIVE SumSeq(_)
SumSeq(ns) == IF Len(ns) = 0 THEN 0 ELSE ns[1] + SumSeq(Tail(ns))

RECURSIVE CountLong(_, _)
\* the number of arrays longer than N anywhere in tr
CountLong(tr, N) ==
    (IF LongArr(tr, N) THEN 1 ELSE 0)
    + SumSeq([i \in 1..Len(tr.vals) |-> CountLong(tr.vals[i], N)])
    + SumSeq([i \in 1..Len(tr.items) |-> CountLong(tr.items[i], N)])

RECURSIVE Resolve(_, _, _)
\* the value reached from v by the keys of path
Resolve(h, v, path) ==
    IF Len(path) = 0 THEN v ELSE Resolve(h, GetProp(h, v, path[1]), Tail(path))

\* the sequence s without its last element
Front(s) == SubSeq(s, 1, Len(s) - 1)

\* the first position of tr's fields that holds an array longer than N
FirstLongField(tr, N) ==
    CHOOSE i \in 1..Len(tr.vals) :
        /\ LongArr(tr.vals[i], N)
        /\ \A j \in 1..(i - 1) : ~LongArr(tr.vals[j], N)

HasLongField(tr, N) ==
    tr.t = "obj" /\ \E i \in 1..Len(tr.vals) : LongArr(tr.vals[i], N)

(***************************************************************************)
(* C1: when a depth-1 key of an object holds an array longer than N,       *)
(* findLargeArrayField returns the first such depth-1 key, with fieldPath  *)
(* equal to that key, wherever keys holding nested objects sit.            *)
(***************************************************************************)
C1_DepthOneFirst ==
    (found.status = "returned" /\ HasLongField(src, maxItemsForContext)) =>
        LET key == src.keys[FirstLongField(src, maxItemsForContext)] IN
        /\ found.r.found
        /\ found.r.fieldPath = key
        /\ found.r.fieldKey = key
        /\ found.r.parentObj = data
        /\ found.r.array = GetProp(heap, data, key)

(***************************************************************************)
(* C2: limitItems never mutates its input: after the call every cell of    *)
(* the input is as the caller built it and the input has the same deep     *)
(* value, whether nothing was limited, the root array was, a nested field  *)
(* was, or the call threw.                                                 *)
(***************************************************************************)
C2_InputNotMutated ==
    res.status # "none" =>
        LET b == Build(<<>>, src) IN
        /\ data = b.val
        /\ SubSeq(heap, 1, Len(b.heap)) = b.heap
        /\ Tree(heap, data) = src

\* a nested field whose elements are objects has been limited
C2_Witness ==
    /\ res.status = "returned"
    /\ res.r.wasLimited
    /\ res.r.limitedField # RootMarker
    /\ \E i \in 1..Len(src.vals) :
          LongArr(src.vals[i], maxItemsForContext) /\ src.vals[i].items[1].t = "obj"

(***************************************************************************)
(* C3: when limitItems reports wasLimited, no cell reachable from the      *)
(* limited value is a cell reachable from the input.                       *)
(***************************************************************************)
C3_NoSharedReference ==
    (res.status = "returned" /\ res.r.wasLimited) =>
        Reach(heap, res.r.limited) \cap Reach(heap, data) = {}

RECURSIVE TruncatedAt(_, _, _, _, _)
\* the tree of v in which field k of the object at address P holds the first
\* N elements of its array, and everything else is as in v
TruncatedAt(h, v, P, k, N) ==
    IF ~IsRef(v) THEN Tree(h, v)
    ELSE LET c == h[v.n] IN
         [t |-> c.kind, n |-> 0, s |-> <<>>,
          keys |-> c.keys,
          vals |-> [i \in 1..Len(c.vals) |->
                      IF v.n = P /\ c.keys[i] = k
                      THEN LET a == Tree(h, c.vals[i])
                           IN TArr(SubSeq(a.items, 1, Min(N, Len(a.items))))
                      ELSE TruncatedAt(h, c.vals[i], P, k, N)],
          items |-> [i \in 1..Len(c.elems) |-> TruncatedAt(h, c.elems[i], P, k, N)]]

(***************************************************************************)
(* C4: for an object in which findLargeArrayField matches field k of       *)
(* object P, with keys being any strings, limitItems returns normally a    *)
(* value in which that field holds the first N elements of its array and   *)
(* everything else equals the input; no field is added or removed.         *)
(***************************************************************************)
C4_NestedFieldTruncated ==
    LET b == Build(<<>>, src)
        f == findLargeArrayField(b.heap, b.val, <<>>, maxItemsForContext)
    IN (res.status # "none" /\ src.t = "obj" /\ f.found /\ f.parentObj # VNull) =>
          /\ res.status = "returned"
          /\ Tree(heap, res.r.limited)
               = TruncatedAt(b.heap, b.val, f.parentObj.n, f.fieldKey, maxItemsForContext)

(***************************************************************************)
(* C5: for a root array of length L > N, limitItems returns exactly the    *)
(* first N elements in their order, with originalCount = L, wasLimited =   *)
(* true and limitedField = '(root)'.                                       *)
(***************************************************************************)
C5_RootArrayLimited ==
    (res.status # "none" /\ LongArr(src, maxItemsForContext)) =>
        /\ res.status = "returned"
        /\ IsArray(heap, res.r.limited)
        /\ Len(heap[res.r.limited.n].elems) = maxItemsForContext
        /\ Tree(heap, res.r.limited) = TArr(SubSeq(src.items, 1, maxItemsForContext))
        /\ res.r.originalCount = Len(src.items)
        /\ res.r.wasLimited
        /\ res.r.hasField
        /\ res.r.limitedField = RootMarker

\* a root array of objects has been limited
C5_Witness ==
    /\ res.status = "returned"
    /\ LongArr(src, maxItemsForContext)
    /\ src.items[1].t = "obj"

\* no array longer than N is the root or is reachable through object keys
NoneExceeds(tr, N) == ~LongArr(tr, N) /\ BigPaths(tr, N) = {}

(***************************************************************************)
(* C6: when nothing exceeds the threshold (null, a primitive, an empty     *)
(* array, a root array of length <= N, an object with no array longer than *)
(* N reachable through object keys), findLargeArrayField returns null and  *)
(* limitItems returns the input value itself with wasLimited = false,      *)
(* originalCount = 0 and limitedField = null.                              *)
(***************************************************************************)
C6_NothingExceeds ==
    NoneExceeds(src, maxItemsForContext) =>
        /\ found.status = "returned" => ~found.r.found
        /\ res.status # "none" =>
              /\ res.status = "returned"
              /\ res.r.limited = data
              /\ ~res.r.wasLimited
              /\ res.r.originalCount = 0
              /\ ~res.r.hasField

\* both operations have run on an object that holds an array of exactly N
\* elements and nothing longer
C6_Witness ==
    /\ found.status = "returned"
    /\ res.status = "returned"
    /\ NoneExceeds(src, maxItemsForContext)
    /\ src.t = "obj"
    /\ \E i \in 1..Len(src.vals) :
          src.vals[i].t = "arr" /\ Len(src.vals[i].items) = maxItemsForContext

(***************************************************************************)
(* C7: for an object that contains exactly one array longer than N, at     *)
(* depth d through the object keys k1..kd, findLargeArrayField returns     *)
(* fieldPath = k1.k2. ... .kd, array = that array, parentObj = the object  *)
(* that owns it and fieldKey = kd.                                         *)
(***************************************************************************)
C7_DottedPath ==
    LET paths == BigPaths(src, maxItemsForContext) IN
    (/\ found.status = "returned"
     /\ src.t = "obj"
     /\ CountLong(src, maxItemsForContext) = 1
     /\ Cardinality(paths) = 1) =>
        LET path == CHOOSE p \in paths : TRUE
            owner == Resolve(heap, data, Front(path))
            kd == path[Len(path)]
        IN /\ found.r.found
           /\ found.r.fieldPath = Join(path, <<".">>)
           /\ found.r.array = GetProp(heap, owner, kd)
           /\ found.r.parentObj = owner
           /\ found.r.fieldKey = kd

\* the text holds a part of section sec
HasPart(text, sec) == \E i \in 1..Len(text) : text[i].sec = sec

(***************************************************************************)
(* C8: formatResponse called with an archive directory always returns a    *)
(* text: when creating the directory or writing the file fails, the call   *)
(* still returns, and the structure section and the data section of the    *)
(* limited value are produced.                                             *)
(***************************************************************************)
C8_ArchiveFailureInline ==
    (out.status # "none" /\ saved.called /\ saved.threw) =>
        /\ out.status = "returned"
        /\ HasPart(out.text, "structure")
        /\ HasPart(out.text, "data")

(***************************************************************************)
(* C9: the file formatResponse writes holds the complete original value:   *)
(* parsing it back yields a value deep-equal to the input, also when the   *)
(* same invocation limited the value.                                      *)
(***************************************************************************)
C9_ArchiveRoundTrip ==
    (out.status # "none" /\ saved.called /\ ~saved.threw) =>
        /\ saved.filePath \in DOMAIN files
        /\ LET back == Parse(<<>>, files[saved.filePath]) IN
           /\ back.rest = <<>>
           /\ Tree(back.heap, back.val) = src

\* a formatResponse that archived and limited in the same invocation
C9_Witness ==
    /\ out.status = "returned"
    /\ out.wasLimited
    /\ saved.called
    /\ ~saved.threw
    /\ saved.filePath \in DOMAIN files

(***************************************************************************)
(* C10 as claimed: after k saveRawData invocations, also ones with the     *)
(* same tool name and parameters at the same instant, the file system      *)
(* holds k distinct archive files.                                         *)
(***************************************************************************)
C10_OneFilePerInvocation == Cardinality(DOMAIN files) = Len(log)

(***************************************************************************)
(* C10 as amended: every saveRawData that returns has written the file at  *)
(* the path it returns; invocations whose time stamps read different       *)
(* instants write different files, so k invocations at k different         *)
(* instants leave k files; the files are as many as the different paths.   *)
(***************************************************************************)
C10_DistinctInstants ==
    /\ \A i \in 1..Len(log) : log[i].filePath \in DOMAIN files
    /\ \A i, j \in 1..Len(log) :
          log[i].now # log[j].now => log[i].filePath # log[j].filePath
    /\ Cardinality(DOMAIN files) = Cardinality({log[i].filePath : i \in 1..Len(log)})
    /\ Cardinality({log[i].now : i \in 1..Len(log)}) = Len(log)
          => Cardinality(DOMAIN files) = Len(log)

\* two invocations at different instants have left two files
C10_Witness ==
    /\ Len(log) >= 2
    /\ log[1].now # log[2].now
    /\ Cardinality(DOMAIN files) >= 2

\* sub occurs in s
Contains(s, sub) ==
    \E i \in 0..(Len(s) - Len(sub)) : SubSeq(s, i + 1, i + Len(sub)) = sub

\* path.basename(filePath)
Basename(filePath) ==
    LET slashes == {i \in 1..Len(filePath) : filePath[i] = "/"}
        last == IF slashes = {} THEN 0 ELSE CHOOSE i \in slashes : \A j \in slashes : j <= i
    IN SubSeq(filePath, last + 1, Len(filePath))

\* the positions of params that are not raw_data_save_dir and hold a value
\* that is neither null nor undefined
Eligible(params) ==
    {i \in 1..Len(params.keys) :
        params.keys[i] # RawDataSaveDirKey /\ params.vals[i].t \notin {"null", "undef"}}

\* params without the positions that are not in keep
Restrict(params, keep) ==
    LET idx == SelectSeq([i \in 1..Len(params.keys) |-> i], LAMBDA i : i \in keep)
    IN [given |-> params.given,
        keys |-> [j \in 1..Len(idx) |-> params.keys[idx[j]]],
        vals |-> [j \in 1..Len(idx) |-> params.vals[idx[j]]]]

IsAbsolute(filePath) == Len(filePath) > 0 /\ filePath[1] = "/"

(***************************************************************************)
(* C12: saveRawData returns an absolute path, also for a save directory    *)
(* given as a relative one, and the file that was written is the file at   *)
(* the returned path.                                                      *)
(***************************************************************************)
C12_AbsolutePath ==
    (saved.called /\ ~saved.threw) =>
        /\ IsAbsolute(saved.filePath)
        /\ saved.filePath \in DOMAIN files
        /\ files[saved.filePath] = Stringify(heap, data)

RECURSIVE IndentedSize(_, _)
\* the bytes of the text of tree tr written as JSON indented by two spaces
\* per level, in UTF-8, tr being at nesting depth d
IndentedSize(tr, d) ==
    CASE tr.t = "null" -> 4
      [] tr.t = "num" -> Len(NumToStr(tr.n))
      [] tr.t = "bool" -> IF tr.n = 1 THEN 4 ELSE 5
      [] tr.t = "str" -> 2 + StrBytes(tr.s)
      [] tr.t = "arr" ->
           IF Len(tr.items) = 0 THEN 2
           ELSE 1 + SumSeq([i \in 1..Len(tr.items) |->
                              1 + 2 * (d + 1) + IndentedSize(tr.items[i], d + 1)])
                + (Len(tr.items) - 1) + 1 + 2 * d + 1
      [] tr.t = "obj" ->
           IF Len(tr.keys) = 0 THEN 2
           ELSE 1 + SumSeq([i \in 1..Len(tr.keys) |->
                              1 + 2 * (d + 1) + 2 + StrBytes(tr.keys[i]) + 2
                              + IndentedSize(tr.vals[i], d + 1)])
                + (Len(tr.keys) - 1) + 1 + 2 * d + 1

(***************************************************************************)
(* C13: the fileSize saveRawData returns is the size in bytes of the file  *)
(* at the returned path as this invocation wrote it: the size of the       *)
(* indented JSON text of the input encoded in UTF-8.                       *)
(***************************************************************************)
C13_SizeOfWrittenFile ==
    (saved.called /\ ~saved.threw) =>
        /\ saved.filePath \in DOMAIN files
        /\ files[saved.filePath] = Stringify(heap, data)
        /\ saved.fileSize = IndentedSize(src, 0)

\* a file has been written whose text holds a character of two bytes
C13_Witness ==
    /\ saved.called
    /\ ~saved.threw
    /\ saved.filePath \in DOMAIN files
    /\ \E i \in 1..Len(files[saved.filePath]) :
          LET tk == files[saved.filePath][i]
          IN tk.k = "str" /\ StrBytes(tk.s) > Len(tk.s)

(***************************************************************************)
(* C14: when creating the directory or writing the file fails, saveRawData *)
(* ends with an error raised to its caller; a result {filePath, fileSize}  *)
(* is returned only for a file that was written, in a directory that       *)
(* exists, and no failure is absorbed.                                     *)
(***************************************************************************)
C14_FailureRaised ==
    saved.called =>
        /\ saved.failed # "none" => saved.threw
        /\ ~saved.threw =>
              /\ saved.failed = "none"
              /\ saved.filePath \in DOMAIN files
              /\ files[saved.filePath] = Stringify(heap, data)
              /\ \E d \in dirs : saved.filePath = PathJoin(d, Basename(saved.filePath))

\* a saveRawData whose write failed, after the directory was created
C14_Witness ==
    /\ saved.called
    /\ saved.failed = "write"
    /\ NewDir \in dirs
    /\ files = <<>>

\* the parts of section sec in the text
PartsOf(text, sec) == SelectSeq(text, LAMBDA p : p.sec = sec)

(***************************************************************************)
(* C15: whenever limiting occurred in a formatResponse, the text holds the *)
(* notice that names the limited field, the threshold N and the original   *)
(* count; the notice and the counted data header are both present or both  *)
(* absent.                                                                 *)
(***************************************************************************)
C15_NoticeWithHeader ==
    out.status = "returned" =>
        LET notes == PartsOf(out.text, "note")
            counted == SelectSeq(PartsOf(out.text, "data"), LAMBDA p : p.flag)
            b == Build(<<>>, src)
            f == findLargeArrayField(b.heap, b.val, <<>>, maxItemsForContext)
        IN /\ out.wasLimited =>
                /\ Len(notes) = 1
                /\ notes[1].str = f.fieldPath
                /\ notes[1].n = maxItemsForContext
                /\ notes[1].m = Len(b.heap[f.array.n].elems)
           /\ Len(notes) = Len(counted)

(***************************************************************************)
(* C16: the text formatResponse returns holds its parts in a fixed order:  *)
(* the header '## {toolName}' ('## Response' without a tool name), the     *)
(* archive notice exactly when a file was saved, the limit notice if any,  *)
(* the '### JSON Structure' section with the outline of the limited value, *)
(* the '### Data' section (plain header when not limited) with the limited *)
(* value as indented JSON; structure and data are in every result.         *)
(***************************************************************************)
C16_PartsInOrder ==
    out.status = "returned" =>
        LET text == out.text
            archived == saved.called /\ ~saved.threw
            b == Build(<<>>, src)
            lim == limitItems(b.heap, b.val, maxItemsForContext)
            last == text[Len(text)]
        IN /\ [i \in 1..Len(text) |-> text[i].sec]
                = <<"header">>
                  \o (IF archived THEN <<"saved">> ELSE <<>>)
                  \o (IF HasPart(text, "note") THEN <<"note">> ELSE <<>>)
                  \o <<"structure", "data">>
           /\ text[1].str = IF out.options.given /\ out.options.toolName # <<>>
                            THEN out.options.toolName
                            ELSE <<"R", "e", "s", "p", "o", "n", "s", "e">>
           /\ archived => text[2].str = saved.filePath
           /\ text[Len(text) - 1].str
                = generateJsonStructureTree(lim.heap, lim.limited, <<>>, TRUE)
           /\ last.toks = Stringify(lim.heap, lim.limited)
           /\ last.flag = out.wasLimited
           /\ ~out.wasLimited => last.str = <<>> /\ last.n = 0 /\ last.m = 0

\* a text that holds the archive notice and the limit notice
C16_Witness ==
    /\ out.status = "returned"
    /\ HasPart(out.text, "saved")
    /\ HasPart(out.text, "note")
    /\ out.options.toolName # <<>>

\* the distance of a and b
Dist(a, b) == IF a < b THEN b - a ELSE a - b

\* the numbers of tenths nearest to num / den (two of them on a tie)
NearestTenths(num, den) ==
    LET lo == (10 * num) \div den
    IN {t \in {lo, lo + 1} :
          \A u \in {lo, lo + 1} : Dist(10 * num, t * den) <= Dist(10 * num, u * den)}

\* t tenths written with one decimal
OneDecimal(t) == NumToStr(t \div 10) \o <<".">> \o NumToStr(t % 10)

(***************************************************************************)
(* C17: for a byte count b, formatFileSize returns '{b} B' when b < 1024,  *)
(* b / 1024 rounded to one decimal and ' KB' when 1024 <= b < 1048576, and *)
(* b / 1048576 rounded to one decimal and ' MB' otherwise; 500 -> '500 B', *)
(* 1024 -> '1.0 KB', 2560 -> '2.5 KB', 1048576 -> '1.0 MB'.                *)
(***************************************************************************)
C17_FileSizeUnits ==
    size.status = "returned" =>
        LET b == size.bytes IN
        /\ b < 1024 => size.text = NumToStr(b) \o <<" ", "B">>
        /\ (1024 <= b /\ b < 1048576) =>
              size.text \in {OneDecimal(t) \o <<" ", "K", "B">> : t \in NearestTenths(b, 1024)}
        /\ b >= 1048576 =>
              size.text \in {OneDecimal(t) \o <<" ", "M", "B">> : t \in NearestTenths(b, 1048576)}
        /\ b = 500 => size.text = <<"5", "0", "0", " ", "B">>
        /\ b = 1024 => size.text = <<"1", ".", "0", " ", "K", "B">>
        /\ b = 2560 => size.text = <<"2", ".", "5", " ", "K", "B">>
        /\ b = 1048576 => size.text = <<"1", ".", "0", " ", "M", "B">>

\* a count of kilobytes whose second decimal rounds the first one up
C17_Witness ==
    /\ size.status = "returned"
    /\ size.bytes >= 1024
    /\ size.bytes < 1048576
    /\ ((100 * size.bytes) \div 1024) % 10 >= 6

\* a formatResponse that returns follows one that returned and took the
\* same options (the input and the threshold never change)
Repeated ==
    /\ calls' = calls + 1
    /\ out.status = "returned"
    /\ out'.status = "returned"
    /\ out'.options = out.options

(***************************************************************************)
(* C18 as claimed: two formatResponse invocations with equal input, equal  *)
(* options and equal threshold return identical text.                      *)
(***************************************************************************)
C18_Deterministic == [][Repeated => out'.text = out.text]_vars

\* the text with the path of the archive notice blanked
WithoutPath(text) ==
    [i \in 1..Len(text) |-> IF text[i].sec = "saved" THEN [text[i] EXCEPT !.str = <<>>] ELSE text[i]]

\* the path of the file an invocation with these options archives at instant t
ArchivePath(options, t) ==
    PathJoin(options.rawDataSaveDir,
             Filename(IF options.toolName # <<>> THEN options.toolName
                      ELSE <<"r", "e", "s", "p", "o", "n", "s", "e">>,
                      options.params, t))

(***************************************************************************)
(* C18 as amended: two formatResponse invocations with equal input, equal  *)
(* options and equal threshold return identical text when no archive       *)
(* directory is given or when both read the same instant; when they        *)
(* archive at different instants the texts differ in the path of the       *)
(* archive notice, which holds the instant, and in nothing else.           *)
(***************************************************************************)
C18_DeterministicButPath ==
    [][Repeated =>
        /\ WithoutPath(out'.text) = WithoutPath(out.text)
        /\ (~out.options.given \/ out.options.rawDataSaveDir = <<>> \/ out'.now = out.now)
              => out'.text = out.text
        /\ (out.options.given /\ out.options.rawDataSaveDir # <<>>) =>
              /\ PartsOf(out.text, "saved")[1].str = ArchivePath(out.options, out.now)
              /\ PartsOf(out'.text, "saved")[1].str = ArchivePath(out.options, out'.now)
              /\ out'.now # out.now => out'.text # out.text]_vars

\* an input that was limited has been archived twice under the same options
\* at different instants, and the second invocation returned
C18_Witness ==
    /\ out.status = "returned"
    /\ out.wasLimited
    /\ LongArr(src, maxItemsForContext)
    /\ Len(log) = 2
    /\ log[1].now # log[2].now
    /\ log[1].saveDir = log[2].saveDir
    /\ log[1].toolName = log[2].toolName
    /\ log[1].params = log[2].params

(***************************************************************************)
(* C19: limitItems truncates at most one array: when the input holds       *)
(* several array fields longer than N, the one findLargeArrayField returns *)
(* is truncated in the result and every other array, the other long ones   *)
(* included, keeps its length and its elements.                            *)
(***************************************************************************)
C19_OnlyOneTruncated ==
    LET b == Build(<<>>, src)
        f == findLargeArrayField(b.heap, b.val, <<>>, maxItemsForContext)
    IN (/\ res.status # "none"
        /\ src.t = "obj"
        /\ Cardinality(BigPaths(src, maxItemsForContext)) >= 2) =>
          /\ res.status = "returned"
          /\ res.r.wasLimited
          /\ f.found
          /\ CountLong(Tree(heap, res.r.limited), maxItemsForContext)
               = CountLong(src, maxItemsForContext) - 1
          /\ Tree(heap, res.r.limited)
               = TruncatedAt(b.heap, b.val, f.parentObj.n, f.fieldKey, maxItemsForContext)

(***************************************************************************)
(* C20: findLargeArrayField never descends into an array: what it returns  *)
(* is the root, with fieldPath '(root)', or an array reached through       *)
(* object keys only, with a fieldPath made of object keys; a long array    *)
(* that is reachable only through an element of an array of length <= N    *)
(* is never returned, and the result is null when there is no other match. *)
(***************************************************************************)
C20_NeverIntoArrays ==
    found.status = "returned" =>
        /\ found.r.found =>
              \/ /\ found.r.fieldPath = RootMarker
                 /\ found.r.array = data
                 /\ src.t = "arr"
              \/ \E p \in BigPaths(src, maxItemsForContext) :
                    /\ found.r.array = Resolve(heap, data, p)
                    /\ found.r.parentObj = Resolve(heap, data, Front(p))
                    /\ IsPlainObject(heap, found.r.parentObj)
                    /\ \E k \in 1..Len(p) :
                          found.r.fieldPath = Join(SubSeq(p, k, Len(p)), <<".">>)
        /\ NoneExceeds(src, maxItemsForContext) => ~found.r.found

\* findLargeArrayField has run on a value whose only long array is an
\* element of a short array
C20_Witness ==
    /\ found.status = "returned"
    /\ NoneExceeds(src, maxItemsForContext)
    /\ CountLong(src, maxItemsForContext) >= 1

\* the number of places at which sub occurs in s
Occurrences(s, sub) ==
    Cardinality({i \in 0..(Len(s) - Len(sub)) : SubSeq(s, i + 1, i + Len(sub)) = sub})

RECURSIVE Rendered(_, _)
\* the number of leaves of the types in kinds among the values the outline
\* renders: the root, the values of object fields, the element at index 0 of
\* arrays at any nesting level
Rendered(tr, kinds) ==
    CASE tr.t = "arr" -> IF Len(tr.items) = 0 THEN 0 ELSE Rendered(tr.items[1], kinds)
      [] tr.t = "obj" -> SumSeq([i \in 1..Len(tr.vals) |-> Rendered(tr.vals[i], kinds)])
      [] OTHER -> IF tr.t \in kinds THEN 1 ELSE 0

(***************************************************************************)
(* C21: in the outline every null that is rendered (the root, the value of *)
(* a field, the element at index 0 of an array at any level) reads 'null'  *)
(* and never a type name; number, string and boolean leaves read their     *)
(* type name and never their value.                                        *)
(***************************************************************************)
C21_NullIsLiteral ==
    tree.status = "returned" =>
        /\ Occurrences(tree.text, <<"n", "u", "l", "l">>) = Rendered(src, {"null", "undef"})
        /\ Occurrences(tree.text, <<"n", "u", "m", "b", "e", "r">>) = Rendered(src, {"num"})
        /\ Occurrences(tree.text, <<"s", "t", "r", "i", "n", "g">>) = Rendered(src, {"str"})
        /\ Occurrences(tree.text, <<"b", "o", "o", "l", "e", "a", "n">>) = Rendered(src, {"bool"})
        /\ ~Contains(tree.text, <<"o", "b", "j", "e", "c", "t">>)
        /\ ~Contains(tree.text, <<"u", "n", "d", "e", "f", "i", "n", "e", "d">>)
        /\ ~Contains(tree.text, <<"7">>)
        /\ ~Contains(tree.text, <<"z", "q">>)
        /\ ~Contains(tree.text, <<"t", "r", "u", "e">>)

RECURSIVE SameButTails(_, _)
\* trees a and b differ at most in elements of arrays at index >= 1, every
\* array of a having the length of its counterpart in b
SameButTails(a, b) ==
    /\ a.t = b.t
    /\ a.n = b.n
    /\ a.s = b.s
    /\ a.keys = b.keys
    /\ Len(a.vals) = Len(b.vals)
    /\ \A i \in 1..Len(a.vals) : SameButTails(a.vals[i], b.vals[i])
    /\ Len(a.items) = Len(b.items)
    /\ Len(a.items) > 0 => SameButTails(a.items[1], b.items[1])

\* the outline of tree tr
OutlineOf(tr) ==
    LET b == Build(<<>>, tr) IN generateJsonStructureTree(b.heap, b.val, <<>>, TRUE)

(***************************************************************************)
(* C22: for every array of the value the outline depends only on the       *)
(* length of the array and on its element at index 0: a value that differs *)
(* from the input only in array elements at index >= 1, with the same      *)
(* array lengths, has the same outline, for root arrays and for arrays     *)
(* held by object fields.                                                  *)
(***************************************************************************)
C22_OnlyFirstElement ==
    tree.status = "returned" =>
        \A other \in OutlineInputs :
            SameButTails(src, other) => OutlineOf(other) = tree.text

\* an outline of an array held by a field, whose elements differ
C22_Witness ==
    /\ tree.status = "returned"
    /\ src.t = "obj"
    /\ \E i \in 1..Len(src.vals) :
          /\ src.vals[i].t = "arr"
          /\ Len(src.vals[i].items) >= 2
          /\ src.vals[i].items[1] # src.vals[i].items[2]
    /\ \E other \in OutlineInputs : other # src /\ SameButTails(src, other)

\* the largest number of set S of naturals, 0 when S is empty
MaxOf(S) == IF S = {} THEN 0 ELSE CHOOSE m \in S : \A x \in S : x <= m

\* the values held directly by value v: field values and elements
PartsOfValue(h, v) ==
    IF ~IsRef(v) THEN {}
    ELSE {h[v.n].vals[i] : i \in 1..Len(h[v.n].vals)}
         \cup {h[v.n].elems[i] : i \in 1..Len(h[v.n].elems)}

RECURSIVE NestDepth(_, _)
\* the nesting depth of value v: 0 for a scalar, one more than the deepest
\* part for an object or an array
NestDepth(h, v) ==
    IF ~IsRef(v) THEN 0
    ELSE 1 + MaxOf({NestDepth(h, p) : p \in PartsOfValue(h, v)})

RECURSIVE RecursionDepth(_, _)
\* the number of nested calls below the call generateJsonStructureTree(v)
RecursionDepth(h, v) ==
    IF OutlineCalls(h, v) = {} THEN 0
    ELSE 1 + MaxOf({RecursionDepth(h, c) : c \in OutlineCalls(h, v)})

\* c is a field value of v, the element 0 of v, or the element 0 of an array
\* held by a field of v
StrictSubValue(h, v, c) ==
    /\ IsRef(v)
    /\ \/ Len(h[v.n].elems) > 0 /\ c = h[v.n].elems[1]
       \/ \E i \in 1..Len(h[v.n].vals) :
            LET value == h[v.n].vals[i] IN
            \/ c = value
            \/ IsArray(h, value) /\ Len(h[value.n].elems) > 0 /\ c = h[value.n].elems[1]
    /\ NestDepth(h, c) < NestDepth(h, v)

RECURSIVE CallsDescend(_, _)
\* every call made below generateJsonStructureTree(v) is on a strict sub-value
\* of its caller's argument
CallsDescend(h, v) ==
    \A c \in OutlineCalls(h, v) : StrictSubValue(h, v, c) /\ CallsDescend(h, c)

(***************************************************************************)
(* C30: generateJsonStructureTree returns on every finite acyclic JSON     *)
(* value; each recursive call is made on a strict sub-value of the         *)
(* caller's argument (a field value, or the element 0 of an array), and    *)
(* the recursion depth never exceeds the nesting depth of the value.       *)
(***************************************************************************)
C30_RecursionBounded ==
    /\ CallsDescend(heap, data)
    /\ RecursionDepth(heap, data) <= NestDepth(heap, data)
    /\ calls > 0 => tree.status = "returned" /\ Len(tree.text) > 0

\* the outline of a value nested five deep was returned after two nested calls
C30_Witness ==
    /\ tree.status = "returned"
    /\ NestDepth(heap, data) >= 5
    /\ RecursionDepth(heap, data) >= 2

\* the part of file name filename between the tool name and '_<timestamp>.json'
ParamBlock(filename, toolName, instant) ==
    SubSeq(filename, Len(toolName) + 1,
           Len(filename) - Len(<<"_">> \o Timestamp(instant) \o <<".", "j", "s", "o", "n">>))

\* the positions of Eligible(params) in increasing order
EligibleSeq(params) ==
    SelectSeq([i \in 1..Len(params.keys) |-> i], LAMBDA i : i \in Eligible(params))

\* what the value of the parameter at position i gives to the block
ValuePart(params, i) == Sanitize(Substring0(ToStr(params.vals[i]), MaxValueLen))

C25_ResultConsistent ==
    res.status = "returned" =>
        /\ res.r.wasLimited <=> res.r.hasField
        /\ res.r.wasLimited <=> res.r.originalCount > maxItemsForContext
        /\ ~res.r.wasLimited =>
              /\ res.r.originalCount = 0
              /\ res.r.limited = data
              /\ Tree(heap, res.r.limited) = src

\* limitItems has cut an array held by a field
C25_Witness ==
    /\ res.status = "returned"
    /\ res.r.wasLimited
    /\ res.r.limitedField # RootMarker
    /\ res.r.originalCount > maxItemsForContext

\* the number of arrays longer than N that are tr itself or are reachable
\* from tr through object keys
ReachableLong(tr, N) ==
    (IF LongArr(tr, N) THEN 1 ELSE 0) + Cardinality(BigPaths(tr, N))

(***************************************************************************)
(* C24: limitItems applied again and again to its own limited output       *)
(* reaches a result with wasLimited = false: every application returns     *)
(* normally, an application with wasLimited = true leaves one array longer *)
(* than N reachable through object keys less than its input had, and an    *)
(* application to a value without such an array has wasLimited = false.    *)
(***************************************************************************)
C24_IterationConverges ==
    [][calls' = calls + 1 =>
         LET input == IF res.status = "returned" THEN res.r.limited ELSE data
             before == ReachableLong(Tree(heap, input), maxItemsForContext)
         IN /\ res'.status = "returned"
            /\ res'.r.wasLimited =>
                  ReachableLong(Tree(heap', res'.r.limited), maxItemsForContext) = before - 1
            /\ ~res'.r.wasLimited => before = 0]_vars

\* what limitItems gives for the caller's value under threshold N
Expected(N) ==
    LET b == Build(<<>>, src)
        r == limitItems(b.heap, b.val, N)
    IN [threw |-> r.threw,
        limited |-> IF r.threw THEN TNull ELSE Tree(r.heap, r.limited),
        originalCount |-> r.originalCount, wasLimited |-> r.wasLimited,
        limitedField |-> r.limitedField]

\* what the call recorded in rs gave
Observed(rs) ==
    [threw |-> rs.status = "threw",
     limited |-> IF rs.status = "threw" THEN TNull ELSE Tree(heap, rs.r.limited),
     originalCount |-> rs.r.originalCount, wasLimited |-> rs.r.wasLimited,
     limitedField |-> rs.r.limitedField]

(***************************************************************************)
(* C29: no operation of a handler writes its configuration or state shared *)
(* between invocations: the threshold of each handler stays the one its    *)
(* constructor was given, the caller's value is left as it was, and with   *)
(* two handlers used in any interleaving each result is the one limitItems *)
(* gives under the threshold of the handler that was called.               *)
(***************************************************************************)
C29_ConfigNeverWritten ==
    /\ [](/\ Tree(heap, data) = src
          /\ res.status # "none" => Observed(res) = Expected(maxItemsForContext)
          /\ peer.res.status # "none" => Observed(peer.res) = Expected(peer.maxItemsForContext))
    /\ [][/\ maxItemsForContext' = maxItemsForContext
          /\ peer.status # "none" =>
                /\ peer'.status = peer.status
                /\ peer'.maxItemsForContext = peer.maxItemsForContext]_vars

\* two handlers with different thresholds have been called on the same value
\* and one of them only has cut it
C29_Witness ==
    /\ res.status = "returned"
    /\ peer.res.status = "returned"
    /\ peer.maxItemsForContext # maxItemsForContext
    /\ res.r.wasLimited # peer.res.r.wasLimited

\* str starts with the characters of pre
StartsWith(str, pre) == Len(str) >= Len(pre) /\ SubSeq(str, 1, Len(pre)) = pre

\* the request of the reply names a tool of the server
KnownTool == reply.name \in {GetPostName, GetPostsName}

\* the request of the reply reaches formatResponse: it has arguments, names
\* a tool, gives what the tool requires, and the API answers with data
ToolSucceeds ==
    /\ reply.args.given
    /\ KnownTool
    /\ reply.name = GetPostName => reply.args.id
    /\ reply.upstream.kind = "data"

(***************************************************************************)
(* C26: every failure of a tool-call request leaves the handler as an      *)
(* McpError: a request without arguments gives InvalidParams, a request    *)
(* with arguments for an unknown tool gives MethodNotFound, any other      *)
(* value thrown by a tool method gives InternalError with a message that   *)
(* starts with 'Product Hunt API error: '; the McpErrors of the handler    *)
(* leave it as they were thrown, never wrapped.                            *)
(***************************************************************************)
C26_FailuresAreMcpErrors ==
    reply.status # "none" =>
        /\ reply.status = "threw" <=> ~ToolSucceeds
        /\ reply.status = "threw" =>
              /\ reply.error.kind = "McpError"
              /\ ~reply.args.given =>
                    reply.error = McpError("InvalidParams", <<"M", "i", "s", "s", "i", "n", "g", " ", "a", "r", "g", "u", "m", "e", "n", "t", "s">>)
              /\ reply.args.given /\ ~KnownTool =>
                    reply.error = McpError("MethodNotFound", <<"U", "n", "k", "n", "o", "w", "n", " ", "t", "o", "o", "l", ":", " ">> \o reply.name)
              /\ reply.args.given /\ KnownTool =>
                    /\ reply.error.code = "InternalError"
                    /\ StartsWith(reply.error.message, <<"P", "r", "o", "d", "u", "c", "t", " ", "H", "u", "n", "t", " ", "A", "P", "I", " ", "e", "r", "r", "o", "r", ":", " ">>)
              /\ reply.error.code \in {"InvalidParams", "MethodNotFound"} =>
                    ~Contains(reply.error.message, <<"P", "r", "o", "d", "u", "c", "t", " ", "H", "u", "n", "t", " ", "A", "P", "I", " ", "e", "r", "r", "o", "r">>)

\* a request with arguments for an unknown tool has failed
C26_Witness ==
    /\ reply.status = "threw"
    /\ reply.args.given
    /\ ~KnownTool
    /\ reply.error.code = "MethodNotFound"

(***************************************************************************)
(* C27: in the server of part_000 formatResponse returns a text result     *)
(* even when saving the cleaned data fails: saveData does not throw, it    *)
(* returns a string that starts with 'Error saving:' when mkdirSync or     *)
(* writeFileSync fails; the encoded data is the first part of the text and *)
(* the save note comes after it; a save is attempted only when saveDir and *)
(* toolName are both given.                                                *)
(***************************************************************************)
C27_SaveFailureStillReturns ==
    (reply.server = "part_000" /\ reply.status # "none" /\ ToolSucceeds) =>
        LET tried == reply.args.save_dir # <<>>
            failed == \/ reply.fault = "write"
                      \/ reply.fault = "mkdir" /\ reply.args.save_dir \notin dirs
        IN /\ reply.status = "returned"
           /\ reply.saveTried = tried
           /\ reply.text.toon.t = "obj"
           /\ reply.text.toon.keys[1] = <<"d", "a", "t", "a">>
           /\ ~tried => reply.text.note = <<>> /\ files = <<>>
           /\ tried /\ failed =>
                 /\ StartsWith(reply.text.note,
                               <<Nl, Nl>> \o <<"[", "C", "l", "e", "a", "n", "e", "d", " ", "d", "a", "t", "a", " ", "s", "a", "v", "e", "d", " ", "t", "o", ":", " ", "E", "r", "r", "o", "r", " ", "s", "a", "v", "i", "n", "g", ":">>)
                 /\ files = <<>>
           /\ tried /\ ~failed =>
                 \E filepath \in DOMAIN files :
                    /\ reply.text.note = SavedNote(filepath)
                    /\ Basename(filepath) = reply.name \o <<"_">> \o Timestamp(reply.instant)
                                             \o <<".", "j", "s", "o", "n">>
                    /\ files[filepath] = StringifyTree(reply.text.toon)
           /\ LET t == ServerFormatResponse(TNull, reply.args.save_dir, <<>>, TNull,
                                            dirs, files, reply.instant, reply.fault)
              IN ~t.threw /\ ~t.saveTried /\ t.text.note = <<>> /\ t.files = files

\* a reply was returned although the directory could not be created
C27_Witness ==
    /\ reply.server = "part_000"
    /\ reply.status = "returned"
    /\ reply.fault = "mkdir"
    /\ reply.saveTried
    /\ Contains(reply.text.note, <<"E", "r", "r", "o", "r", " ", "s", "a", "v", "i", "n", "g", ":">>)
    /\ reply.text.toon.vals[1].t = "arr"
    /\ Len(reply.text.toon.vals[1].items) > 0

(***************************************************************************)
(* C28: for a list tool of part_000 the number of items in the returned    *)
(* data is at most max_items for every integer max_items the caller        *)
(* supplies, and at most 10 when max_items is not supplied, whatever the   *)
(* number of edges of the answer (no item at all for a max_items below 0). *)
(***************************************************************************)
C28_AtMostMaxItems ==
    (reply.server = "part_000" /\ reply.status = "returned" /\ reply.name = GetPostsName) =>
        Len(reply.text.toon.vals[1].items)
            <= (IF ~reply.args.max_items.given THEN DefaultMaxItems
                ELSE IF reply.args.max_items.n < 0 THEN 0
                ELSE reply.args.max_items.n)

=============================================================================
